---- MODULE Spec2Model ----
(***************************************************************************)
(* PaperPocket: the interest-based ranking pass (usePaperRecommendations.  *)
(* scorePapers), the embedding store it reads and writes (storage.ts), the *)
(* recommended-feed pass of the app store (fetchRecommendedPapers), the    *)
(* similarity routines as pure functions, the storage readers, the library *)
(* of saved papers, the chat of a paper, the development hook's text       *)
(* generation, search, start-up and the reset of all data.                 *)
(*                                                                         *)
(* Asynchronous code is modelled at the granularity of its suspension      *)
(* points: every action is the code that runs between two awaits.          *)
(***************************************************************************)
EXTENDS Integers, Sequences, FiniteSets, TLC

(***************************************************************************)
(* Bounds of the model.                                                    *)
(***************************************************************************)
\* longest paper list handed to scorePapers
MaxPapers == 2
\* longest interest list handed to scorePapers
MaxInterests == 2
\* number of scorePapers passes run one after the other
MaxRuns == 2
\* number of fetchRecommendedPapers calls made
MaxFetches == 2

PaperIds == {"p1", "p2", "p3"}
InterestNames == {"ml", "ML"}

\* the value of an absent optional field (JS undefined)
NoInterest == "undefined"
\* an annotation left on a paper by an earlier ranking (Paper.matchedInterest)
OldInterest == "old"

(***************************************************************************)
(* Numbers.  Scores are exact rationals [n, d] in lowest terms with d > 0; *)
(* the vectors of the model all have integer norms, so Math.sqrt is exact. *)
(***************************************************************************)
Abs(x) == IF x < 0 THEN -x ELSE x

RECURSIVE GCD(_, _)
GCD(a, b) == IF b = 0 THEN a ELSE GCD(b, a % b)

Rat(n, d) ==
    LET g == GCD(Abs(n), Abs(d))
    IN  IF n = 0 THEN [n |-> 0, d |-> 1] ELSE [n |-> n \div g, d |-> d \div g]

Zero == [n |-> 0, d |-> 1]

\* a > b on rationals
RatGreater(a, b) == a.n * b.d > b.n * a.d

\* Math.sqrt on the perfect squares the model's vectors produce
Sqrt(x) == CHOOSE r \in 0..x : r * r = x

(***************************************************************************)
(* The embedding engine (cactusLM.embed).  It returns the same vector for  *)
(* the same text; vectors have three components and norm 5.                *)
(***************************************************************************)
\* the vector the engine returns for a paper's "title. abstract" text
PaperVec(id) ==
    CASE id = "p1" -> <<5, 0, 0>>
      [] id = "p2" -> <<0, 3, 4>>
      [] OTHER     -> <<5, 0, 0>>

\* the vector the engine returns for an interest name
InterestVec(name) ==
    IF name = "ml" THEN <<3, 4, 0>> ELSE <<3, 0, 4>>

\* the vector a record written by an earlier session holds for a paper
\* (p1's was produced by another model version: no invalidation policy)
CachedVec(id) == IF id = "p1" THEN <<0, -5, 0>> ELSE PaperVec(id)

\* String.prototype.toLowerCase on the interest names of the model
ToLowerCase(name) == IF name = "ML" THEN "ml" ELSE name

(***************************************************************************)
(* cosineSimilarity (PaperCard.tsx:613-632).  Thrown stands for the        *)
(* Error('Vectors must have the same length').                             *)
(***************************************************************************)
Thrown == [n |-> 0, d |-> 0]

\* the accumulation loop: sum of a[j] * b[j] for j = 1..i
RECURSIVE LoopSum(_, _, _)
LoopSum(a, b, i) == IF i = 0 THEN 0 ELSE LoopSum(a, b, i - 1) + a[i] * b[i]

\* faulty variant of cosineSimilarity: the dot product is not normalised
DotProductOnly(a, b) ==
    IF Len(a) # Len(b) THEN Thrown ELSE Rat(LoopSum(a, b, Len(a)), 1)

cosineSimilarity(a, b) ==
    IF Len(a) # Len(b) THEN Thrown
    ELSE LET dotProduct == LoopSum(a, b, Len(a))
             magA == LoopSum(a, a, Len(a))
             magB == LoopSum(b, b, Len(a))
             magnitude == Sqrt(magA) * Sqrt(magB)
         IN  IF magnitude = 0 THEN Zero ELSE Rat(dotProduct, magnitude)

(***************************************************************************)
(* The scoring of one paper (PaperCard.tsx:676-692).                       *)
(***************************************************************************)
\* faulty variants of IsBetter: last-wins on ties, and the minimum for the maximum
IsBetterOrEqual(similarity, bestScore) == ~RatGreater(bestScore, similarity)
IsWorse(similarity, bestScore) == RatGreater(bestScore, similarity)

\* if (similarity > bestScore)
IsBetter(similarity, bestScore) == RatGreater(similarity, bestScore)

\* bestScore / bestInterest after the first k iterations of the for loop;
\* threw is set when cosineSimilarity threw in one of them
RECURSIVE BestMatch(_, _, _)
BestMatch(paperEmbedding, ie, k) ==
    IF k = 0
    THEN [bestScore |-> Zero, bestInterest |-> NoInterest, threw |-> FALSE]
    ELSE LET before == BestMatch(paperEmbedding, ie, k - 1)
             similarity == cosineSimilarity(paperEmbedding, ie[k].embedding)
         IN  IF before.threw THEN before
             ELSE IF similarity = Thrown THEN [before EXCEPT !.threw = TRUE]
             ELSE IF IsBetter(similarity, before.bestScore)
                  THEN [bestScore |-> similarity, bestInterest |-> ie[k].interest,
                        threw |-> FALSE]
                  ELSE before

\* { ...paper, score: bestScore, matchedInterest: bestInterest }
ScoredPaper(paper, paperEmbedding, ie) ==
    LET best == BestMatch(paperEmbedding, ie, Len(ie))
    IN  [id |-> paper.id, score |-> best.bestScore,
         matchedInterest |-> best.bestInterest]

\* variant of ZeroScored that clears the annotation, as the scored path does
ZeroScoredCleared(paper) ==
    [id |-> paper.id, score |-> Zero, matchedInterest |-> NoInterest]

\* { ...paper, score: 0 }: the spread keeps every field of the input paper
ZeroScored(paper) ==
    [id |-> paper.id, score |-> Zero, matchedInterest |-> paper.matchedInterest]

\* papers.map((p) => ({ ...p, score: 0 }))
AllZeroScored(ps) == [i \in 1..Len(ps) |-> ZeroScored(ps[i])]

(***************************************************************************)
(* scoredPapers.sort((a, b) => b.score - a.score): Array.prototype.sort is *)
(* stable, so an element is placed after the elements it does not beat.    *)
(***************************************************************************)
\* faulty variants of SortsBefore: ties reordered, and ascending order
SortsBeforeOrEqual(a, b) == ~RatGreater(b.score, a.score)
SortsBeforeAscending(a, b) == RatGreater(b.score, a.score)

\* the comparator is negative for (a, b): a sorts before b
SortsBefore(a, b) == RatGreater(a.score, b.score)

RECURSIVE InsertSorted(_, _)
InsertSorted(sorted, x) ==
    IF sorted = <<>> THEN <<x>>
    ELSE IF SortsBefore(x, Head(sorted)) THEN <<x>> \o sorted
    ELSE <<Head(sorted)>> \o InsertSorted(Tail(sorted), x)

RECURSIVE SortByScore(_)
SortByScore(s) ==
    IF s = <<>> THEN <<>>
    ELSE InsertSorted(SortByScore(SubSeq(s, 1, Len(s) - 1)), s[Len(s)])

(***************************************************************************)
(* State.                                                                  *)
(***************************************************************************)
VARIABLES
    \* the arguments and the captured state of scorePapers
    isDownloaded,       \* cactusLM.isDownloaded
    papers,             \* papers: Paper[]
    interests,          \* interests: string[]
    \* storage.ts
    embeddingsFile,     \* content of embeddings.json: paperId -> EmbeddingData
    \* one scorePapers pass
    pc,                 \* "idle", "getEmbeddings", "interests", "papers", "done"
    storedEmbeddings,   \* const storedEmbeddings
    interestEmbeddings, \* const interestEmbeddings
    tasks,              \* the promises papers.map(async ...) created
    result,             \* the list the pass returned
    path,               \* the return taken: "fallback", "scored", "caught"
    \* observers
    run,                \* number of passes started (also the clock of new Date())
    paperCalls,         \* engine calls of this pass, per paper id
    interestCalls,      \* engine calls of this pass made for interests
    fileAtStart,        \* embeddingsFile when this pass started
    prev,               \* what the pass before this one returned
    \* the app store (useAppStore.ts) and papers.json
    storeInterests,     \* interests: UserInterest[]
    recommendedPapers,  \* recommendedPapers: Paper[]
    isLoadingPapers,    \* isLoadingPapers: boolean
    papersError,        \* papersError: string | null
    agentActivities,    \* agentActivities.length
    papersFile,         \* content of papers.json (the papers cache)
    fetches,            \* the fetchRecommendedPapers calls made so far
    lastStarted,        \* the recommendation pass started most recently
    \* one call of each similarity routine
    simA,               \* argument a: number[]
    simB,               \* argument b: number[]
    simCosine,          \* what cosineSimilarity(a, b) returned or threw
    simCompute,         \* what computeSimilarity(a, b) returned or threw
    \* one call of a storage reader (storage.ts)
    rdReader,           \* the reader called
    rdContent,          \* the reader's file as the call finds it
    rdPc,               \* "idle", "info", "read", "done"
    rdResult,           \* what the reader returned or threw
    \* the library (useAppStore.ts) and library.json
    libraryPapers,      \* libraryPapers: Paper[], as the list of the ids
    libraryFile,        \* content of library.json
    libWrites,          \* the saveLibraryPapers calls made so far
    libLoads,           \* loadLibrary calls: started, and still reading
    libAdded,           \* ids added by addToLibrary and not removed since
    \* chat sessions (useAppStore.ts), chat_sessions.json and the chat screen
    chatSessions,       \* chatSessions: Record<string, ChatSession>, as the messages
    chatFile,           \* content of chat_sessions.json
    chatWrites,         \* the saveChatSessions calls made so far
    chatProcs,          \* where the screen's welcome effect, summary and send are
    hasInitialSummary,  \* useState(false) of AIChatScreen
    \* the development hook (hooks/useCactusAI.ts)
    isModelDownloaded,  \* the store's isModelDownloaded
    isGenerating,       \* useState(false)
    currentResponse,    \* useState(''), as the number of its words
    genError,           \* useState<string | null>(null)
    abortRef,           \* abortRef.current
    calls,              \* the generateCompletion calls made so far
    \* search (useAppStore.ts)
    searchQuery,        \* searchQuery: string
    searchResults,      \* searchResults: Paper[], as the list of the ids
    isSearching,        \* isSearching: boolean
    searches,           \* the searchPapers calls made so far
    lastSearchOp,       \* the search operation called most recently
    \* start-up and reset (useAppStore.ts, SettingsScreen.tsx, storage.ts)
    isInitialized,      \* isInitialized: boolean
    loads,              \* the four loads of initializeApp
    interestsFile,      \* content of interests.json
    clearPc,            \* clearAllData: "idle", "info", "delete", "done", "failed"
    preClear            \* library.json when Clear Data was pressed

rankVars == <<isDownloaded, papers, interests, embeddingsFile, pc, storedEmbeddings,
              interestEmbeddings, tasks, result, path, run, paperCalls,
              interestCalls, fileAtStart, prev>>

storeVars == <<storeInterests, recommendedPapers, isLoadingPapers, papersError,
               agentActivities, papersFile, fetches, lastStarted>>

simVars == <<simA, simB, simCosine, simCompute>>

readVars == <<rdReader, rdContent, rdPc, rdResult>>

libVars == <<libraryPapers, libraryFile, libWrites, libLoads, libAdded>>

chatVars == <<chatSessions, chatFile, chatWrites, chatProcs, hasInitialSummary>>

genVars == <<isModelDownloaded, isGenerating, currentResponse, genError, abortRef,
             calls>>

searchVars == <<searchQuery, searchResults, isSearching, searches, lastSearchOp>>

appVars == <<isInitialized, loads, interestsFile, clearPc, preClear>>

vars == <<rankVars, storeVars, simVars, readVars, libVars, chatVars, genVars,
          searchVars, appVars>>

\* Paper objects as the catalogue or an earlier ranking produced them
PaperOf(id) ==
    [id |-> id, matchedInterest |-> IF id = "p3" THEN OldInterest ELSE NoInterest]

\* finite sequences over S of length at most n
SeqsUpTo(S, n) == UNION {[1..k -> S] : k \in 0..n}

IsInjective(f) == \A i, j \in DOMAIN f : f[i] = f[j] => i = j

\* paper lists: at most MaxPapers papers with distinct ids
PaperLists ==
    {[i \in DOMAIN ids |-> PaperOf(ids[i])] :
        ids \in {q \in SeqsUpTo(PaperIds, MaxPapers) : IsInjective(q)}}

\* interface EmbeddingData
EmbeddingData(id, embedding, at) ==
    [paperId |-> id, embedding |-> embedding, updatedAt |-> at]

\* embeddings.json as earlier sessions left it, with records for the ids in S
FileWith(S) == [id \in S |-> EmbeddingData(id, CachedVec(id), 0)]

NoPrev == [valid |-> FALSE, result |-> <<>>, path |-> "none", clean |-> FALSE,
           fileAtStart |-> <<>>]

\* paper lists are written as the sequences of their ids in the store
NoPapers == <<>>
\* what the catalogue may answer to a fetch
Feeds == {<<"p1", "p2">>, <<"p3">>}
\* papers.json as an earlier session left it
OldFeed == <<"p2">>
\* const mockPapers of refreshRecommendations
MockPapers == <<"1", "2", "3">>

\* papersError values
NoError == "null"
CachedNotice == "Using cached data (network error)"
FetchFailed == "Network request failed"
WriteFailed == "Error writing papers.json"

\* .slice(0, 20)
ActivityCap == 20

NoFile == [exists |-> FALSE, papers |-> NoPapers]

NoFetch == [pc |-> "idle", papers |-> NoPapers, error |-> NoError,
            outcome |-> "none", delivered |-> NoPapers]

NoPass == [kind |-> "none", k |-> 0]

\* the store as create() builds it, before any recommendation pass
StoreAtRest ==
    /\ storeInterests = <<>>
    /\ recommendedPapers = NoPapers
    /\ isLoadingPapers = FALSE
    /\ papersError = NoError
    /\ agentActivities = 0
    /\ papersFile = NoFile
    /\ fetches = [k \in 1..MaxFetches |-> NoFetch]
    /\ lastStarted = NoPass

\* no ranking pass has been started, and there is nothing to rank
RankAtRest ==
    /\ isDownloaded = FALSE
    /\ papers = <<>>
    /\ interests = <<>>
    /\ embeddingsFile = <<>>
    /\ pc = "idle"
    /\ storedEmbeddings = <<>>
    /\ interestEmbeddings = <<>>
    /\ tasks = <<>>
    /\ result = <<>>
    /\ path = "none"
    /\ run = 0
    /\ paperCalls = [id \in PaperIds |-> 0]
    /\ interestCalls = 0
    /\ fileAtStart = <<>>
    /\ prev = NoPrev

\* longest library list
MaxLibrary == 3
\* number of saveLibraryPapers calls made
MaxLibWrites == 2
\* number of loadLibrary calls made
MaxLibLoads == 2

\* JSON values by their type and the type of what they hold
JsonValue(type, of) == [type |-> type, of |-> of]

NoValue == JsonValue("none", "none")

\* no storage reader has been called
ReadAtRest ==
    /\ rdReader = "none"
    /\ rdContent = "none"
    /\ rdPc = "idle"
    /\ rdResult = NoValue

NoWrite == [st |-> "idle", list |-> <<>>]

\* the library as create() builds it, library.json not written yet
LibAtRest ==
    /\ libraryPapers = <<>>
    /\ libraryFile = <<>>
    /\ libWrites = [w \in 1..MaxLibWrites |-> NoWrite]
    /\ libLoads = [started |-> 0, reading |-> 0]
    /\ libAdded = {}

\* a similarity routine not called yet
NotCalled == [n |-> 1, d |-> -1]

\* no similarity routine has been called
SimAtRest ==
    /\ simA = <<>>
    /\ simB = <<>>
    /\ simCosine = NotCalled
    /\ simCompute = NotCalled

\* number of saveChatSessions calls made
MaxChatWrites == 4
\* number of generateCompletion calls made
MaxCalls == 2
\* number of words of the response generated
MaxWords == 2
\* number of searchPapers calls made
MaxSearches == 2

\* route.params.paperId of the chat screen, and a paper chatted about earlier
ScreenPaper == "p1"
OtherPaper == "p2"

\* interface ChatMessage; isStreaming is optional
Message(id, role, content, isStreaming) ==
    [id |-> id, role |-> role, content |-> content, isStreaming |-> isStreaming]

\* chatSessions: {} and chat_sessions.json missing (getChatSessions gives {})
NoSessions == <<>>

\* what an earlier session left for the other paper
OldSessions ==
    [p \in {OtherPaper} |->
        <<Message("welcome", "assistant", "hello", "undefined"),
          Message("user-0", "user", "old question", "undefined"),
          Message("ai-0", "assistant", "", "true")>>]

NoChatWrite == [st |-> "idle", sessions |-> NoSessions]

NoProc == [pc |-> "idle", w |-> 0]

\* the chat store as create() builds it, the chat screen not mounted
ChatAtRest ==
    /\ chatSessions = NoSessions
    /\ chatFile = NoSessions
    /\ chatWrites = [w \in 1..MaxChatWrites |-> NoChatWrite]
    /\ chatProcs = [p \in {"welcome", "summary", "send"} |-> NoProc]
    /\ hasInitialSummary = FALSE

\* a generateCompletion call not made yet; stopped and stopAt record whether
\* stopGeneration was called while it ran, and the words it had then
NoCall == [pc |-> "idle", accumulated |-> 0, stopped |-> FALSE, stopAt |-> 0]

\* the hook as its first render leaves it
GenAtRest ==
    /\ isModelDownloaded = FALSE
    /\ isGenerating = FALSE
    /\ currentResponse = 0
    /\ genError = "null"
    /\ abortRef = FALSE
    /\ calls = [c \in 1..MaxCalls |-> NoCall]

NoSearch == [pc |-> "idle", query |-> ""]

NoSearchOp == [kind |-> "none", k |-> 0]

\* search as create() builds it
SearchAtRest ==
    /\ searchQuery = ""
    /\ searchResults = <<>>
    /\ isSearching = FALSE
    /\ searches = [k \in 1..MaxSearches |-> NoSearch]
    /\ lastSearchOp = NoSearchOp

\* the four loads of initializeApp
LoadNames == {"interests", "library", "notes", "chatSessions"}

\* the store as create() builds it: not initialized, Clear Data not pressed
AppAtRest ==
    /\ isInitialized = FALSE
    /\ loads = [l \in LoadNames |-> "idle"]
    /\ interestsFile = <<>>
    /\ clearPc = "idle"
    /\ preClear = <<>>

Init ==
    /\ ChatAtRest
    /\ GenAtRest
    /\ SearchAtRest
    /\ AppAtRest
    /\ StoreAtRest
    /\ SimAtRest
    /\ ReadAtRest
    /\ LibAtRest
    /\ isDownloaded \in BOOLEAN
    /\ papers \in PaperLists
    /\ interests \in SeqsUpTo(InterestNames, MaxInterests)
    /\ embeddingsFile \in {FileWith(S) : S \in SUBSET PaperIds}
    /\ pc = "idle"
    /\ storedEmbeddings = <<>>
    /\ interestEmbeddings = <<>>
    /\ tasks = <<>>
    /\ result = <<>>
    /\ path = "none"
    /\ run = 0
    /\ paperCalls = [id \in PaperIds |-> 0]
    /\ interestCalls = 0
    /\ fileAtStart = <<>>
    /\ prev = NoPrev

(***************************************************************************)
(* scorePapers (PaperCard.tsx:643-704), one action per stretch of code     *)
(* between two awaits.                                                     *)
(***************************************************************************)
Settled(t) == t.st \in {"fulfilled", "rejected"}

\* faulty variant of IsMiss: the stored embedding is never used
IsMissAlways(stored, id) == TRUE

\* let paperEmbedding = storedEmbeddings[paper.id]?.embedding; if (!paperEmbedding)
IsMiss(stored, id) == id \notin DOMAIN stored

\* lines 676-692 for one paper: the promise fulfils with the scored paper, or
\* rejects when cosineSimilarity threw
ScoreTask(paper, paperEmbedding, ie, snap) ==
    [st     |-> IF BestMatch(paperEmbedding, ie, Len(ie)).threw
                THEN "rejected" ELSE "fulfilled",
     emb    |-> paperEmbedding,
     snap   |-> snap,
     out    |-> ScoredPaper(paper, paperEmbedding, ie),
     failed |-> "none"]

\* catch { return { ...paper, score: 0 }; } of lines 671-673
FailedTask(paper, t, why) ==
    [t EXCEPT !.st = "fulfilled", !.out = ZeroScored(paper), !.failed = why]

\* the map callback up to its first await: a paper with a stored embedding is
\* scored at once, for the others embedAndStorePaper has called the engine
StartTask(paper, stored, ie) ==
    IF IsMiss(stored, paper.id)
    THEN [st |-> "embed", emb |-> <<>>, snap |-> <<>>,
          out |-> ScoredPaper(paper, <<>>, <<>>), failed |-> "none"]
    ELSE ScoreTask(paper, stored[paper.id].embedding, ie, <<>>)

\* whether the pass in the variables ran without an engine or storage failure
PassClean == path # "caught" /\ \A i \in DOMAIN tasks : tasks[i].failed = "none"

\* the call, up to `await storage.getEmbeddings()` or the early return
scorePapers ==
    /\ pc \in {"idle", "done"}
    /\ run < MaxRuns
    /\ \A i \in DOMAIN tasks : Settled(tasks[i])
    /\ run' = run + 1
    /\ prev' = IF run = 0 THEN NoPrev
               ELSE [valid |-> TRUE, result |-> result, path |-> path,
                     clean |-> PassClean, fileAtStart |-> fileAtStart]
    /\ fileAtStart' = embeddingsFile
    /\ paperCalls' = [id \in PaperIds |-> 0]
    /\ interestCalls' = 0
    /\ storedEmbeddings' = <<>>
    /\ interestEmbeddings' = <<>>
    /\ tasks' = <<>>
    /\ IF ~isDownloaded \/ Len(interests) = 0
       THEN /\ result' = AllZeroScored(papers)
            /\ path' = "fallback"
            /\ pc' = "done"
       ELSE /\ result' = <<>>
            /\ path' = "none"
            /\ pc' = "getEmbeddings"
    /\ UNCHANGED storeVars
    /\ UNCHANGED simVars
    /\ UNCHANGED readVars
    /\ UNCHANGED libVars
    /\ UNCHANGED chatVars
    /\ UNCHANGED genVars
    /\ UNCHANGED searchVars
    /\ UNCHANGED appVars
    /\ UNCHANGED <<isDownloaded, papers, interests, embeddingsFile>>

\* storage.getEmbeddings() resolved (readJsonFile never rejects); the loop
\* over the interests calls embedQuery for the first one
GetEmbeddingsDone ==
    /\ pc = "getEmbeddings"
    /\ storedEmbeddings' = embeddingsFile
    /\ interestCalls' = 1
    /\ pc' = "interests"
    /\ UNCHANGED storeVars
    /\ UNCHANGED simVars
    /\ UNCHANGED readVars
    /\ UNCHANGED libVars
    /\ UNCHANGED chatVars
    /\ UNCHANGED genVars
    /\ UNCHANGED searchVars
    /\ UNCHANGED appVars
    /\ UNCHANGED <<isDownloaded, papers, interests, embeddingsFile, interestEmbeddings,
                   tasks, result, path, run, paperCalls, fileAtStart, prev>>

\* engine calls the map callbacks make: one per paper without a stored embedding
CallsOfMap(ps, stored) ==
    [id \in PaperIds |->
        Cardinality({i \in DOMAIN ps : ps[i].id = id /\ IsMiss(stored, id)})]

\* embedQuery(interest) settled.  Resolved: the pair is pushed and the loop goes
\* on, or, after the last interest, Promise.all(papers.map(...)) starts.
\* Rejected: the outer catch returns papers.map((p) => ({ ...p, score: 0 })).
EmbedQueryDone(ok) ==
    /\ pc = "interests"
    /\ LET k == Len(interestEmbeddings) + 1
           ie == Append(interestEmbeddings,
                        [interest |-> interests[k],
                         embedding |-> InterestVec(interests[k])])
       IN  IF ~ok
           THEN /\ result' = AllZeroScored(papers)
                /\ path' = "caught"
                /\ pc' = "done"
                /\ UNCHANGED <<interestEmbeddings, interestCalls, tasks, paperCalls>>
           ELSE /\ interestEmbeddings' = ie
                /\ UNCHANGED <<result, path>>
                /\ IF k < Len(interests)
                   THEN /\ interestCalls' = interestCalls + 1
                        /\ pc' = "interests"
                        /\ UNCHANGED <<tasks, paperCalls>>
                   ELSE /\ pc' = "papers"
                        /\ tasks' = [i \in DOMAIN papers |->
                                        StartTask(papers[i], storedEmbeddings, ie)]
                        /\ paperCalls' = CallsOfMap(papers, storedEmbeddings)
                        /\ UNCHANGED interestCalls
    /\ UNCHANGED storeVars
    /\ UNCHANGED simVars
    /\ UNCHANGED readVars
    /\ UNCHANGED libVars
    /\ UNCHANGED chatVars
    /\ UNCHANGED genVars
    /\ UNCHANGED searchVars
    /\ UNCHANGED appVars
    /\ UNCHANGED <<isDownloaded, papers, interests, embeddingsFile, storedEmbeddings,
                   run, fileAtStart, prev>>

\* generateEmbedding(textToEmbed) settled inside embedAndStorePaper.  Resolved:
\* storePaperEmbedding starts with `await getEmbeddings()`.  Rejected: the
\* error is rethrown and the callback's catch returns the paper with score 0.
EmbedPaperDone(i, ok) ==
    /\ i \in DOMAIN tasks
    /\ tasks[i].st = "embed"
    /\ tasks' = [tasks EXCEPT ![i] =
                    IF ok THEN [@ EXCEPT !.st = "read", !.emb = PaperVec(papers[i].id)]
                    ELSE FailedTask(papers[i], @, "engine")]
    /\ UNCHANGED storeVars
    /\ UNCHANGED simVars
    /\ UNCHANGED readVars
    /\ UNCHANGED libVars
    /\ UNCHANGED chatVars
    /\ UNCHANGED genVars
    /\ UNCHANGED searchVars
    /\ UNCHANGED appVars
    /\ UNCHANGED <<isDownloaded, papers, interests, embeddingsFile, pc,
                   storedEmbeddings, interestEmbeddings, result, path, run,
                   paperCalls, interestCalls, fileAtStart, prev>>

\* storePaperEmbedding: `const embeddings = await getEmbeddings()` resolved
\* with the whole file as it is now
StoreReadDone(i) ==
    /\ i \in DOMAIN tasks
    /\ tasks[i].st = "read"
    /\ tasks' = [tasks EXCEPT ![i] = [@ EXCEPT !.st = "write", !.snap = embeddingsFile]]
    /\ UNCHANGED storeVars
    /\ UNCHANGED simVars
    /\ UNCHANGED readVars
    /\ UNCHANGED libVars
    /\ UNCHANGED chatVars
    /\ UNCHANGED genVars
    /\ UNCHANGED searchVars
    /\ UNCHANGED appVars
    /\ UNCHANGED <<isDownloaded, papers, interests, embeddingsFile, pc,
                   storedEmbeddings, interestEmbeddings, result, path, run,
                   paperCalls, interestCalls, fileAtStart, prev>>

\* embeddings[paperId] = { paperId, embedding, updatedAt }
WithRecord(embeddings, id, embedding, at) ==
    [x \in DOMAIN embeddings \cup {id} |->
        IF x = id THEN EmbeddingData(id, embedding, at) ELSE embeddings[x]]

\* faulty variant of SavedFile: the file is replaced by the new record alone
SavedFileRecordOnly(snap, current, id, embedding, at) ==
    WithRecord(<<>>, id, embedding, at)

\* faulty variant of SavedFile: the record is merged into the file as it is now
SavedFileMerged(snap, current, id, embedding, at) ==
    WithRecord(current, id, embedding, at)

\* saveEmbeddings(embeddings): writeJsonFile replaces the whole file with the
\* map this call read earlier, plus its own record
SavedFile(snap, current, id, embedding, at) == WithRecord(snap, id, embedding, at)

\* storePaperEmbedding: `await saveEmbeddings(embeddings)` settled.  Resolved:
\* the file is replaced and embedAndStorePaper returns the embedding, which is
\* scored.  Rejected (writeJsonFile rethrows): the callback's catch returns
\* the paper with score 0.
StoreWriteDone(i, ok) ==
    /\ i \in DOMAIN tasks
    /\ tasks[i].st = "write"
    /\ IF ok
       THEN /\ embeddingsFile' = SavedFile(tasks[i].snap, embeddingsFile,
                                           papers[i].id, tasks[i].emb, run)
            /\ tasks' = [tasks EXCEPT ![i] =
                            ScoreTask(papers[i], @.emb, interestEmbeddings, @.snap)]
       ELSE /\ embeddingsFile' = embeddingsFile
            /\ tasks' = [tasks EXCEPT ![i] = FailedTask(papers[i], @, "storage")]
    /\ UNCHANGED storeVars
    /\ UNCHANGED simVars
    /\ UNCHANGED readVars
    /\ UNCHANGED libVars
    /\ UNCHANGED chatVars
    /\ UNCHANGED genVars
    /\ UNCHANGED searchVars
    /\ UNCHANGED appVars
    /\ UNCHANGED <<isDownloaded, papers, interests, pc, storedEmbeddings,
                   interestEmbeddings, result, path, run, paperCalls,
                   interestCalls, fileAtStart, prev>>

\* Promise.all settled: it rejects as soon as one promise rejects (outer
\* catch), and resolves when all are fulfilled (sort and return)
PromiseAllDone ==
    /\ pc = "papers"
    /\ LET rejected == \E i \in DOMAIN tasks : tasks[i].st = "rejected"
           fulfilled == \A i \in DOMAIN tasks : tasks[i].st = "fulfilled"
       IN  /\ IF rejected THEN TRUE ELSE fulfilled
           /\ IF rejected
              THEN /\ result' = AllZeroScored(papers)
                   /\ path' = "caught"
              ELSE /\ result' = SortByScore([i \in DOMAIN tasks |-> tasks[i].out])
                   /\ path' = "scored"
    /\ pc' = "done"
    /\ UNCHANGED storeVars
    /\ UNCHANGED simVars
    /\ UNCHANGED readVars
    /\ UNCHANGED libVars
    /\ UNCHANGED chatVars
    /\ UNCHANGED genVars
    /\ UNCHANGED searchVars
    /\ UNCHANGED appVars
    /\ UNCHANGED <<isDownloaded, papers, interests, embeddingsFile, storedEmbeddings,
                   interestEmbeddings, tasks, run, paperCalls, interestCalls,
                   fileAtStart, prev>>

Next ==
    \/ scorePapers
    \/ GetEmbeddingsDone
    \/ \E ok \in BOOLEAN : EmbedQueryDone(ok)
    \/ \E i \in 1..MaxPapers, ok \in BOOLEAN : EmbedPaperDone(i, ok)
    \/ \E i \in 1..MaxPapers : StoreReadDone(i)
    \/ \E i \in 1..MaxPapers, ok \in BOOLEAN : StoreWriteDone(i, ok)
    \/ PromiseAllDone

Spec == Init /\ [][Next]_vars

(***************************************************************************)
(* fetchRecommendedPapers (useAppStore.ts:140-190), call k of the calls    *)
(* made so far, and refreshRecommendations (useCactusAI.ts:297-362).       *)
(***************************************************************************)
\* const { interests } = get(); set({ isLoadingPapers: true, papersError: null });
\* then getPapersForInterests or getRecentPapers is called and awaited
fetchRecommendedPapers(k) ==
    /\ fetches[k].pc = "idle"
    /\ \A j \in 1..(k - 1) : fetches[j].pc # "idle"
    /\ isLoadingPapers' = TRUE
    /\ papersError' = NoError
    /\ fetches' = [fetches EXCEPT ![k] = [@ EXCEPT !.pc = "fetch"]]
    /\ lastStarted' = [kind |-> "fetch", k |-> k]
    /\ UNCHANGED <<storeInterests, recommendedPapers, agentActivities, papersFile>>
    /\ UNCHANGED rankVars
    /\ UNCHANGED simVars
    /\ UNCHANGED readVars
    /\ UNCHANGED libVars
    /\ UNCHANGED chatVars
    /\ UNCHANGED genVars
    /\ UNCHANGED searchVars
    /\ UNCHANGED appVars

\* the catalogue request resolved with a list: savePapersCache(papers) is awaited
GetPapersResolved(k, feed) ==
    /\ fetches[k].pc = "fetch"
    /\ fetches' = [fetches EXCEPT ![k] = [@ EXCEPT !.pc = "save", !.papers = feed]]
    /\ UNCHANGED <<storeInterests, recommendedPapers, isLoadingPapers, papersError,
                   agentActivities, papersFile, lastStarted>>
    /\ UNCHANGED rankVars
    /\ UNCHANGED simVars
    /\ UNCHANGED readVars
    /\ UNCHANGED libVars
    /\ UNCHANGED chatVars
    /\ UNCHANGED genVars
    /\ UNCHANGED searchVars
    /\ UNCHANGED appVars

\* the catalogue request rejected: the catch block awaits getPapersCache()
GetPapersRejected(k) ==
    /\ fetches[k].pc = "fetch"
    /\ fetches' = [fetches EXCEPT ![k] = [@ EXCEPT !.pc = "readCache",
                                                   !.error = FetchFailed]]
    /\ UNCHANGED <<storeInterests, recommendedPapers, isLoadingPapers, papersError,
                   agentActivities, papersFile, lastStarted>>
    /\ UNCHANGED rankVars
    /\ UNCHANGED simVars
    /\ UNCHANGED readVars
    /\ UNCHANGED libVars
    /\ UNCHANGED chatVars
    /\ UNCHANGED genVars
    /\ UNCHANGED searchVars
    /\ UNCHANGED appVars

\* [activity, ...get().agentActivities].slice(0, 20), as a length
WithActivity(n) == IF n + 1 > ActivityCap THEN ActivityCap ELSE n + 1

\* savePapersCache(papers) settled.  Resolved: papers.json holds the list and
\* the store is set, whichever call was started last.  Rejected (writeJsonFile
\* rethrows): the catch block awaits getPapersCache().
SavePapersCacheDone(k, ok) ==
    /\ fetches[k].pc = "save"
    /\ IF ok
       THEN /\ papersFile' = [exists |-> TRUE, papers |-> fetches[k].papers]
            /\ fetches' = [fetches EXCEPT ![k] =
                              [@ EXCEPT !.pc = "done", !.outcome = "fetched",
                                        !.delivered = fetches[k].papers]]
            /\ recommendedPapers' = fetches[k].papers
            /\ isLoadingPapers' = FALSE
            /\ agentActivities' = WithActivity(agentActivities)
       ELSE /\ fetches' = [fetches EXCEPT ![k] = [@ EXCEPT !.pc = "readCache",
                                                           !.error = WriteFailed]]
            /\ UNCHANGED <<papersFile, recommendedPapers, isLoadingPapers,
                           agentActivities>>
    /\ UNCHANGED <<storeInterests, papersError, lastStarted>>
    /\ UNCHANGED rankVars
    /\ UNCHANGED simVars
    /\ UNCHANGED readVars
    /\ UNCHANGED libVars
    /\ UNCHANGED chatVars
    /\ UNCHANGED genVars
    /\ UNCHANGED searchVars
    /\ UNCHANGED appVars

\* getPapersCache() resolved in the catch block (readJsonFile never rejects):
\* with a cache the cached papers and the notice are set, without one the
\* error message
GetPapersCacheDone(k) ==
    /\ fetches[k].pc = "readCache"
    /\ IF papersFile.exists
       THEN /\ fetches' = [fetches EXCEPT ![k] =
                              [@ EXCEPT !.pc = "done", !.outcome = "cached",
                                        !.delivered = papersFile.papers]]
            /\ recommendedPapers' = papersFile.papers
            /\ isLoadingPapers' = FALSE
            /\ papersError' = CachedNotice
       ELSE /\ fetches' = [fetches EXCEPT ![k] =
                              [@ EXCEPT !.pc = "done", !.outcome = "failed"]]
            /\ isLoadingPapers' = FALSE
            /\ papersError' = fetches[k].error
            /\ UNCHANGED recommendedPapers
    /\ UNCHANGED <<storeInterests, agentActivities, papersFile, lastStarted>>
    /\ UNCHANGED rankVars
    /\ UNCHANGED simVars
    /\ UNCHANGED readVars
    /\ UNCHANGED libVars
    /\ UNCHANGED chatVars
    /\ UNCHANGED genVars
    /\ UNCHANGED searchVars
    /\ UNCHANGED appVars

\* refreshRecommendations has no await: it returns early without a model or
\* without interests, and otherwise sets the mock list at once
refreshRecommendations ==
    /\ isDownloaded
    /\ Len(storeInterests) > 0
    /\ lastStarted.kind # "refresh"
    /\ recommendedPapers' = MockPapers
    /\ lastStarted' = [kind |-> "refresh", k |-> 0]
    /\ UNCHANGED <<storeInterests, isLoadingPapers, papersError, agentActivities,
                   papersFile, fetches>>
    /\ UNCHANGED rankVars
    /\ UNCHANGED simVars
    /\ UNCHANGED readVars
    /\ UNCHANGED libVars
    /\ UNCHANGED chatVars
    /\ UNCHANGED genVars
    /\ UNCHANGED searchVars
    /\ UNCHANGED appVars

\* the store before the dashboard's first fetch: interests as loadInterests
\* left them, papers.json present or not
InitFetch ==
    /\ ChatAtRest
    /\ GenAtRest
    /\ SearchAtRest
    /\ AppAtRest
    /\ SimAtRest
    /\ ReadAtRest
    /\ LibAtRest
    /\ isDownloaded \in BOOLEAN
    /\ papers = <<>>
    /\ interests = <<>>
    /\ embeddingsFile = <<>>
    /\ pc = "idle"
    /\ storedEmbeddings = <<>>
    /\ interestEmbeddings = <<>>
    /\ tasks = <<>>
    /\ result = <<>>
    /\ path = "none"
    /\ run = 0
    /\ paperCalls = [id \in PaperIds |-> 0]
    /\ interestCalls = 0
    /\ fileAtStart = <<>>
    /\ prev = NoPrev
    /\ storeInterests \in SeqsUpTo(InterestNames, 1)
    /\ recommendedPapers = NoPapers
    /\ isLoadingPapers = FALSE
    /\ papersError = NoError
    /\ agentActivities = 0
    /\ papersFile \in {NoFile, [exists |-> TRUE, papers |-> OldFeed]}
    /\ fetches = [k \in 1..MaxFetches |-> NoFetch]
    /\ lastStarted = NoPass

NextFetch ==
    \/ \E k \in 1..MaxFetches : fetchRecommendedPapers(k)
    \/ \E k \in 1..MaxFetches, feed \in Feeds : GetPapersResolved(k, feed)
    \/ \E k \in 1..MaxFetches : GetPapersRejected(k)
    \/ \E k \in 1..MaxFetches, ok \in BOOLEAN : SavePapersCacheDone(k, ok)
    \/ \E k \in 1..MaxFetches : GetPapersCacheDone(k)
    \/ refreshRecommendations

SpecFetch == InitFetch /\ [][NextFetch]_vars

(***************************************************************************)
(* Progress of the ranking pass.  The event loop runs every continuation   *)
(* whose promise has settled, and the file system completes every read and *)
(* write; the engine (cactusLM.embed) is an external collaborator whose    *)
(* calls may never settle, and no code of the pass races them with a       *)
(* timer, so the steps that wait for the engine carry no fairness.         *)
(***************************************************************************)
SpecLive ==
    /\ Init
    /\ [][Next]_vars
    /\ WF_vars(GetEmbeddingsDone)
    /\ WF_vars(PromiseAllDone)
    /\ \A i \in 1..MaxPapers : WF_vars(StoreReadDone(i))
    /\ \A i \in 1..MaxPapers : WF_vars(\E ok \in BOOLEAN : StoreWriteDone(i, ok))

(***************************************************************************)
(* The ranking pass over an embeddings.json in which p1's record was       *)
(* written by a model of another dimension (EmbeddingData carries no model *)
(* version, and storedEmbeddings[paper.id]?.embedding is used as it is).   *)
(***************************************************************************)
\* the two-component vector of p1's record
ShortVec == <<3, 4>>

FileWithShort(S) ==
    [id \in S |-> EmbeddingData(id, IF id = "p1" THEN ShortVec ELSE PaperVec(id), 0)]

InitMismatch ==
    /\ ChatAtRest
    /\ GenAtRest
    /\ SearchAtRest
    /\ AppAtRest
    /\ StoreAtRest
    /\ SimAtRest
    /\ ReadAtRest
    /\ LibAtRest
    /\ isDownloaded = TRUE
    /\ papers \in PaperLists
    /\ interests \in SeqsUpTo(InterestNames, MaxInterests)
    /\ embeddingsFile \in {FileWithShort(S \cup {"p1"}) : S \in SUBSET PaperIds}
    /\ pc = "idle"
    /\ storedEmbeddings = <<>>
    /\ interestEmbeddings = <<>>
    /\ tasks = <<>>
    /\ result = <<>>
    /\ path = "none"
    /\ run = 0
    /\ paperCalls = [id \in PaperIds |-> 0]
    /\ interestCalls = 0
    /\ fileAtStart = <<>>
    /\ prev = NoPrev

SpecMismatch == InitMismatch /\ [][Next]_vars

(***************************************************************************)
(* The similarity routines as pure functions: cosineSimilarity             *)
(* (PaperCard.tsx:613-632) and computeSimilarity of the recommendation     *)
(* hook (useCactusAI.ts:290-295), each called once on a pair of vectors.   *)
(***************************************************************************)
\* longest vector handed to a similarity routine
MaxDim == 3

SimComponents == {-4, -3, 0, 3, 4}

IsSquare(x) == \E r \in 0..x : r * r = x

\* vectors of at most MaxDim components whose norm is an integer
SimVectors ==
    {v \in SeqsUpTo(SimComponents, MaxDim) : IsSquare(LoopSum(v, v, Len(v)))}

\* the IEEE value NaN
NaN == [n |-> 1, d |-> 0]

\* computeSimilarity: reduce runs over the indices of a and reads b[i], which
\* is undefined past the end of b (val * undefined is NaN, and NaN stays);
\* components of b past the end of a are left out of the dot product; the
\* division has no guard, and 0 / 0 is NaN
computeSimilarity(a, b) ==
    IF Len(a) > Len(b) THEN NaN
    ELSE LET dotProduct == LoopSum(a, b, Len(a))
             magA == Sqrt(LoopSum(a, a, Len(a)))
             magB == Sqrt(LoopSum(b, b, Len(b)))
         IN  IF magA * magB = 0 THEN NaN ELSE Rat(dotProduct, magA * magB)

CosineSimilarityCall ==
    /\ simCosine = NotCalled
    /\ simCosine' = cosineSimilarity(simA, simB)
    /\ UNCHANGED <<simA, simB, simCompute>>
    /\ UNCHANGED rankVars
    /\ UNCHANGED storeVars
    /\ UNCHANGED readVars
    /\ UNCHANGED libVars
    /\ UNCHANGED chatVars
    /\ UNCHANGED genVars
    /\ UNCHANGED searchVars
    /\ UNCHANGED appVars

ComputeSimilarityCall ==
    /\ simCompute = NotCalled
    /\ simCompute' = computeSimilarity(simA, simB)
    /\ UNCHANGED <<simA, simB, simCosine>>
    /\ UNCHANGED rankVars
    /\ UNCHANGED storeVars
    /\ UNCHANGED readVars
    /\ UNCHANGED libVars
    /\ UNCHANGED chatVars
    /\ UNCHANGED genVars
    /\ UNCHANGED searchVars
    /\ UNCHANGED appVars

\* nothing else of the program runs; the two arguments are any two vectors
InitSim ==
    /\ ChatAtRest
    /\ GenAtRest
    /\ SearchAtRest
    /\ AppAtRest
    /\ StoreAtRest
    /\ ReadAtRest
    /\ LibAtRest
    /\ isDownloaded = FALSE
    /\ papers = <<>>
    /\ interests = <<>>
    /\ embeddingsFile = <<>>
    /\ pc = "idle"
    /\ storedEmbeddings = <<>>
    /\ interestEmbeddings = <<>>
    /\ tasks = <<>>
    /\ result = <<>>
    /\ path = "none"
    /\ run = 0
    /\ paperCalls = [id \in PaperIds |-> 0]
    /\ interestCalls = 0
    /\ fileAtStart = <<>>
    /\ prev = NoPrev
    /\ simA \in SimVectors
    /\ simB \in SimVectors
    /\ simCosine = NotCalled
    /\ simCompute = NotCalled

NextSim ==
    \/ CosineSimilarityCall
    \/ ComputeSimilarityCall

SpecSim == InitSim /\ [][NextSim]_vars

(***************************************************************************)
(* The storage readers (storage.ts): each is readJsonFile on the reader's  *)
(* file with the reader's default value.                                   *)
(***************************************************************************)
Readers ==
    {"getLibraryPapers", "getInterests", "getChatSessions", "getAllNotes",
     "getEmbeddings", "getPapersCache"}

\* the defaultValue argument: [], {} or null
DefaultValue(reader) ==
    CASE reader \in {"getLibraryPapers", "getInterests"} -> JsonValue("array", "none")
      [] reader = "getPapersCache" -> JsonValue("null", "none")
      [] OTHER -> JsonValue("object", "none")

\* the type parameter T of the reader's readJsonFile<T> call, as the set of
\* the values of that type
ExpectedShape(reader) ==
    CASE reader = "getLibraryPapers" ->
             {JsonValue("array", "none"), JsonValue("array", "Paper")}
      [] reader = "getInterests" ->
             {JsonValue("array", "none"), JsonValue("array", "UserInterest")}
      [] reader = "getChatSessions" ->
             {JsonValue("object", "none"), JsonValue("object", "ChatSession")}
      [] reader = "getAllNotes" ->
             {JsonValue("object", "none"), JsonValue("object", "PaperNote[]")}
      [] reader = "getEmbeddings" ->
             {JsonValue("object", "none"), JsonValue("object", "EmbeddingData")}
      [] OTHER ->
             {JsonValue("null", "none"), JsonValue("object", "papers, updatedAt")}

\* what the reader's file may be: absent, present but not readable, or
\* present with one of these texts
Missing == "missing"
Unreadable == "unreadable"
Truncated == "[{\"id\":"
Texts ==
    {Truncated, "null", "42", "[]", "{}", "[Paper]", "[UserInterest]",
     "{ChatSession}", "{PaperNote[]}", "{EmbeddingData}", "{papers, updatedAt}"}
Contents == {Missing, Unreadable} \cup Texts

\* the SyntaxError of JSON.parse
SyntaxError == JsonValue("SyntaxError", "none")

\* JSON.parse on the texts of the model
JSONParse(text) ==
    CASE text = "null" -> JsonValue("null", "none")
      [] text = "42" -> JsonValue("number", "none")
      [] text = "[]" -> JsonValue("array", "none")
      [] text = "{}" -> JsonValue("object", "none")
      [] text = "[Paper]" -> JsonValue("array", "Paper")
      [] text = "[UserInterest]" -> JsonValue("array", "UserInterest")
      [] text = "{ChatSession}" -> JsonValue("object", "ChatSession")
      [] text = "{PaperNote[]}" -> JsonValue("object", "PaperNote[]")
      [] text = "{EmbeddingData}" -> JsonValue("object", "EmbeddingData")
      [] text = "{papers, updatedAt}" -> JsonValue("object", "papers, updatedAt")
      [] OTHER -> SyntaxError

\* return JSON.parse(content) as T: the cast checks nothing; the catch turns
\* a SyntaxError into the default value
Parsed(text, defaultValue) ==
    IF JSONParse(text) = SyntaxError THEN defaultValue ELSE JSONParse(text)

\* the reader is called: readJsonFile awaits FileSystem.getInfoAsync
ReaderCall(reader) ==
    /\ rdPc = "idle"
    /\ rdReader' = reader
    /\ rdPc' = "info"
    /\ UNCHANGED <<rdContent, rdResult>>
    /\ UNCHANGED rankVars
    /\ UNCHANGED storeVars
    /\ UNCHANGED simVars
    /\ UNCHANGED libVars
    /\ UNCHANGED chatVars
    /\ UNCHANGED genVars
    /\ UNCHANGED searchVars
    /\ UNCHANGED appVars

\* getInfoAsync settled.  Rejected: the catch returns the default value.
\* Resolved: without the file the default value is returned, with it
\* readAsStringAsync is awaited.
GetInfoDone(ok) ==
    /\ rdPc = "info"
    /\ IF ~ok \/ rdContent = Missing
       THEN rdResult' = DefaultValue(rdReader) /\ rdPc' = "done"
       ELSE rdResult' = rdResult /\ rdPc' = "read"
    /\ UNCHANGED <<rdReader, rdContent>>
    /\ UNCHANGED rankVars
    /\ UNCHANGED storeVars
    /\ UNCHANGED simVars
    /\ UNCHANGED libVars
    /\ UNCHANGED chatVars
    /\ UNCHANGED genVars
    /\ UNCHANGED searchVars
    /\ UNCHANGED appVars

\* readAsStringAsync settled.  Rejected: the catch returns the default value.
\* Resolved: the text is parsed and returned.
ReadAsStringDone ==
    /\ rdPc = "read"
    /\ rdResult' = IF rdContent = Unreadable THEN DefaultValue(rdReader)
                   ELSE Parsed(rdContent, DefaultValue(rdReader))
    /\ rdPc' = "done"
    /\ UNCHANGED <<rdReader, rdContent>>
    /\ UNCHANGED rankVars
    /\ UNCHANGED storeVars
    /\ UNCHANGED simVars
    /\ UNCHANGED libVars
    /\ UNCHANGED chatVars
    /\ UNCHANGED genVars
    /\ UNCHANGED searchVars
    /\ UNCHANGED appVars

\* nothing else of the program runs; the file is in any of its states
InitRead ==
    /\ ChatAtRest
    /\ GenAtRest
    /\ SearchAtRest
    /\ AppAtRest
    /\ RankAtRest
    /\ StoreAtRest
    /\ SimAtRest
    /\ LibAtRest
    /\ rdReader = "none"
    /\ rdContent \in Contents
    /\ rdPc = "idle"
    /\ rdResult = NoValue

NextRead ==
    \/ \E reader \in Readers : ReaderCall(reader)
    \/ \E ok \in BOOLEAN : GetInfoDone(ok)
    \/ ReadAsStringDone

SpecRead == InitRead /\ [][NextRead]_vars

(***************************************************************************)
(* The library (useAppStore.ts:194-220) and library.json.  Paper lists are *)
(* written as the sequences of their ids.                                  *)
(***************************************************************************)
\* faulty variant of InList: the paper is never found in the list
InListNever(list, id) == FALSE

\* libraryPapers.some((p) => p.id === id)
InList(list, id) == \E i \in DOMAIN list : list[i] = id

\* libraryPapers.filter((p) => p.id !== id)
RECURSIVE Without(_, _)
Without(list, id) ==
    IF list = <<>> THEN <<>>
    ELSE IF Head(list) = id THEN Without(Tail(list), id)
    ELSE <<Head(list)>> \o Without(Tail(list), id)

\* the saveLibraryPapers call this action makes: the first one not made yet
NextWrite == CHOOSE w \in 1..MaxLibWrites :
    libWrites[w].st = "idle" /\ \A v \in 1..(w - 1) : libWrites[v].st # "idle"

CanWrite == \E w \in 1..MaxLibWrites : libWrites[w].st = "idle"

\* addToLibrary(paper) up to `await storage.saveLibraryPapers(newLibrary)`;
\* a paper already in the list returns at once
addToLibrary(id) ==
    /\ CanWrite
    /\ Len(libraryPapers) < MaxLibrary
    /\ ~InList(libraryPapers, id)
    /\ LET newLibrary == <<id>> \o libraryPapers
       IN  /\ libraryPapers' = newLibrary
           /\ libWrites' = [libWrites EXCEPT ![NextWrite] =
                               [st |-> "pending", list |-> newLibrary]]
    /\ libAdded' = libAdded \cup {id}
    /\ UNCHANGED <<libraryFile, libLoads>>
    /\ UNCHANGED rankVars
    /\ UNCHANGED storeVars
    /\ UNCHANGED simVars
    /\ UNCHANGED readVars
    /\ UNCHANGED chatVars
    /\ UNCHANGED genVars
    /\ UNCHANGED searchVars
    /\ UNCHANGED appVars

\* removeFromLibrary(id) up to `await storage.saveLibraryPapers(newLibrary)`
removeFromLibrary(id) ==
    /\ CanWrite
    /\ LET newLibrary == Without(libraryPapers, id)
       IN  /\ libraryPapers' = newLibrary
           /\ libWrites' = [libWrites EXCEPT ![NextWrite] =
                               [st |-> "pending", list |-> newLibrary]]
    /\ libAdded' = libAdded \ {id}
    /\ UNCHANGED <<libraryFile, libLoads>>
    /\ UNCHANGED rankVars
    /\ UNCHANGED storeVars
    /\ UNCHANGED simVars
    /\ UNCHANGED readVars
    /\ UNCHANGED chatVars
    /\ UNCHANGED genVars
    /\ UNCHANGED searchVars
    /\ UNCHANGED appVars

\* saveLibraryPapers(list) settled: writeJsonFile replaced library.json, or
\* rethrew and the file is as it was
SaveLibraryDone(w, ok) ==
    /\ libWrites[w].st = "pending"
    /\ libWrites' = [libWrites EXCEPT ![w] =
                        [@ EXCEPT !.st = IF ok THEN "done" ELSE "failed"]]
    /\ libraryFile' = IF ok THEN libWrites[w].list ELSE libraryFile
    /\ UNCHANGED <<libraryPapers, libLoads, libAdded>>
    /\ UNCHANGED rankVars
    /\ UNCHANGED storeVars
    /\ UNCHANGED simVars
    /\ UNCHANGED readVars
    /\ UNCHANGED chatVars
    /\ UNCHANGED genVars
    /\ UNCHANGED searchVars
    /\ UNCHANGED appVars

\* loadLibrary up to `await storage.getLibraryPapers()`
loadLibrary ==
    /\ libLoads.started < MaxLibLoads
    /\ libLoads' = [started |-> libLoads.started + 1, reading |-> libLoads.reading + 1]
    /\ UNCHANGED <<libraryPapers, libraryFile, libWrites, libAdded>>
    /\ UNCHANGED rankVars
    /\ UNCHANGED storeVars
    /\ UNCHANGED simVars
    /\ UNCHANGED readVars
    /\ UNCHANGED chatVars
    /\ UNCHANGED genVars
    /\ UNCHANGED searchVars
    /\ UNCHANGED appVars

\* getLibraryPapers() resolved with the file as it is now (readJsonFile never
\* rejects): set({ libraryPapers: papers })
GetLibraryDone ==
    /\ libLoads.reading > 0
    /\ libraryPapers' = libraryFile
    /\ libLoads' = [libLoads EXCEPT !.reading = @ - 1]
    /\ UNCHANGED <<libraryFile, libWrites, libAdded>>
    /\ UNCHANGED rankVars
    /\ UNCHANGED storeVars
    /\ UNCHANGED simVars
    /\ UNCHANGED readVars
    /\ UNCHANGED chatVars
    /\ UNCHANGED genVars
    /\ UNCHANGED searchVars
    /\ UNCHANGED appVars

\* the store before loadLibrary ran, library.json as an earlier session left it
InitLibrary ==
    /\ ChatAtRest
    /\ GenAtRest
    /\ SearchAtRest
    /\ AppAtRest
    /\ RankAtRest
    /\ StoreAtRest
    /\ SimAtRest
    /\ ReadAtRest
    /\ libraryPapers = <<>>
    /\ libraryFile \in {<<>>, <<"p3">>, <<"p3", "p2">>}
    /\ libWrites = [w \in 1..MaxLibWrites |-> NoWrite]
    /\ libLoads = [started |-> 0, reading |-> 0]
    /\ libAdded = {}

NextLibrary ==
    \/ \E id \in PaperIds : addToLibrary(id)
    \/ \E id \in PaperIds : removeFromLibrary(id)
    \/ \E w \in 1..MaxLibWrites, ok \in BOOLEAN : SaveLibraryDone(w, ok)
    \/ loadLibrary
    \/ GetLibraryDone

SpecLibrary == InitLibrary /\ [][NextLibrary]_vars

(***************************************************************************)
(* The chat of one paper: addMessageToSession and updateLastMessage        *)
(* (useAppStore.ts:314-355), saveChatSessions (storage.ts), and the chat   *)
(* screen's welcome effect, generateInitialSummary and handleSend          *)
(* (AIChatScreen).  A message is written to chat_sessions.json as          *)
(* JSON.stringify leaves it and read back by JSON.parse; its fields are    *)
(* strings, which both keep, and an isStreaming that was never set is      *)
(* "undefined" here.  The engine's completion is a promise that resolves   *)
(* or rejects, and isGenerating is the engine's flag, true while a         *)
(* completion the screen asked for is running.                             *)
(***************************************************************************)
ProcNames == {"welcome", "summary", "send"}

WelcomeMessage == Message("welcome", "assistant", "hello", "undefined")
\* const thinkingMsg of generateInitialSummary
ThinkingMessage == Message("summary-1", "assistant", "", "true")
\* const userMsg and const aiMsg of handleSend
UserMessage == Message("user-1", "user", "question", "undefined")
AiMessage == Message("ai-1", "assistant", "", "true")

\* the text each completion delivers: its response, or the catch block's text
FinalText(p, ok) ==
    IF p = "summary"
    THEN (IF ok THEN "Quick Summary" ELSE "ready to help")
    ELSE (IF ok THEN "response" ELSE "error message")

\* session?.messages || []
MessagesOf(sessions, paperId) ==
    IF paperId \in DOMAIN sessions THEN sessions[paperId] ELSE <<>>

\* const newSessions of addMessageToSession
WithMessage(sessions, paperId, message) ==
    [p \in DOMAIN sessions \cup {paperId} |->
        IF p = paperId
        THEN Append(MessagesOf(sessions, paperId), message)
        ELSE sessions[p]]

\* what updateLastMessage(paperId, content) sets
updateLastMessage(sessions, paperId, content) ==
    IF Len(MessagesOf(sessions, paperId)) = 0
    THEN sessions
    ELSE [sessions EXCEPT ![paperId] =
             [@ EXCEPT ![Len(@)] =
                 [@ EXCEPT !.content = content, !.isStreaming = "false"]]]

\* the saveChatSessions call a new write becomes
FirstIdle(writes) ==
    CHOOSE w \in 1..MaxChatWrites :
        /\ writes[w].st = "idle"
        /\ \A j \in 1..(w - 1) : writes[j].st # "idle"

CanChatWrite == \E w \in 1..MaxChatWrites : chatWrites[w].st = "idle"

\* cactusLM.isGenerating
EngineGenerating == \E p \in ProcNames : chatProcs[p].pc = "completing"

\* the condition of the summary effect
SummaryDue ==
    /\ isDownloaded
    /\ ~hasInitialSummary
    /\ Len(MessagesOf(chatSessions, ScreenPaper)) <= 1

\* addMessageToSession(paperId, message) up to `await storage.saveChatSessions`
addMessageToSession(paperId, message) ==
    LET newSessions == WithMessage(chatSessions, paperId, message)
    IN  /\ chatSessions' = newSessions
        /\ chatWrites' = [chatWrites EXCEPT ![FirstIdle(chatWrites)] =
                             [st |-> "pending", sessions |-> newSessions]]

\* the screen mounts: a session without messages gets the welcome message,
\* which is not awaited
WelcomeEffect ==
    /\ chatProcs["welcome"].pc = "idle"
    /\ CanChatWrite
    /\ IF Len(MessagesOf(chatSessions, ScreenPaper)) = 0
       THEN /\ addMessageToSession(ScreenPaper, WelcomeMessage)
            /\ chatProcs' = [chatProcs EXCEPT !["welcome"] =
                                [pc |-> "adding", w |-> FirstIdle(chatWrites)]]
       ELSE /\ chatProcs' = [chatProcs EXCEPT !["welcome"] = [pc |-> "done", w |-> 0]]
            /\ UNCHANGED <<chatSessions, chatWrites>>
    /\ UNCHANGED <<chatFile, hasInitialSummary>>
    /\ UNCHANGED <<rankVars, storeVars, simVars, readVars, libVars>>
    /\ UNCHANGED <<genVars, searchVars, appVars>>

\* the summary effect runs generateInitialSummary up to
\* `await addMessageToSession(paper.id, thinkingMsg)`
generateInitialSummary ==
    /\ chatProcs["welcome"].pc # "idle"
    /\ chatProcs["summary"].pc = "idle"
    /\ SummaryDue
    /\ ~EngineGenerating
    /\ CanChatWrite
    /\ hasInitialSummary' = TRUE
    /\ addMessageToSession(ScreenPaper, ThinkingMessage)
    /\ chatProcs' = [chatProcs EXCEPT !["summary"] =
                        [pc |-> "adding", w |-> FirstIdle(chatWrites)]]
    /\ UNCHANGED chatFile
    /\ UNCHANGED <<rankVars, storeVars, simVars, readVars, libVars>>
    /\ UNCHANGED <<genVars, searchVars, appVars>>

\* handleSend up to `await addMessageToSession(paper.id, userMsg)`; the effects
\* of the commit that enabled the input have run before the user can send
handleSend ==
    /\ chatProcs["welcome"].pc # "idle"
    /\ ~(chatProcs["summary"].pc = "idle" /\ SummaryDue)
    /\ chatProcs["send"].pc = "idle"
    /\ isDownloaded
    /\ ~EngineGenerating
    /\ CanChatWrite
    /\ addMessageToSession(ScreenPaper, UserMessage)
    /\ chatProcs' = [chatProcs EXCEPT !["send"] =
                        [pc |-> "addingUser", w |-> FirstIdle(chatWrites)]]
    /\ UNCHANGED <<chatFile, hasInitialSummary>>
    /\ UNCHANGED <<rankVars, storeVars, simVars, readVars, libVars>>
    /\ UNCHANGED <<genVars, searchVars, appVars>>

\* where a function goes on when the write it awaits has settled: a rejected
\* write (writeJsonFile rethrows) ends it, outside its try block
AfterWrite(p, ok) ==
    IF p = "welcome" THEN "done"
    ELSE IF ~ok THEN "failed"
    ELSE IF chatProcs[p].pc = "addingUser" THEN "addingAi"
    ELSE "completing"

\* saveChatSessions(newSessions) settled: chat_sessions.json is replaced, or
\* the write rethrew; the function awaiting it goes on.  handleSend adds its
\* placeholder, the others call the engine.
SaveChatSessionsDone(w, ok) ==
    /\ chatWrites[w].st = "pending"
    /\ chatFile' = IF ok THEN chatWrites[w].sessions ELSE chatFile
    /\ LET settled == [chatWrites EXCEPT ![w] =
                          [@ EXCEPT !.st = IF ok THEN "done" ELSE "failed"]]
           p == CHOOSE q \in ProcNames : chatProcs[q].w = w
           to == AfterWrite(p, ok)
       IN  IF to = "addingAi"
           THEN LET newSessions == WithMessage(chatSessions, ScreenPaper, AiMessage)
                IN  /\ chatSessions' = newSessions
                    /\ chatWrites' = [settled EXCEPT ![FirstIdle(settled)] =
                                         [st |-> "pending", sessions |-> newSessions]]
                    /\ chatProcs' = [chatProcs EXCEPT ![p] =
                                        [pc |-> to, w |-> FirstIdle(settled)]]
           ELSE /\ chatWrites' = settled
                /\ chatProcs' = [chatProcs EXCEPT ![p] = [pc |-> to, w |-> 0]]
                /\ UNCHANGED chatSessions
    /\ UNCHANGED hasInitialSummary
    /\ UNCHANGED <<rankVars, storeVars, simVars, readVars, libVars>>
    /\ UNCHANGED <<genVars, searchVars, appVars>>

\* summarizePaper or chatAboutPaper settled: updateLastMessage is called with
\* the response, or with the catch block's text
CompletionDone(p, ok) ==
    /\ chatProcs[p].pc = "completing"
    /\ chatSessions' = updateLastMessage(chatSessions, ScreenPaper, FinalText(p, ok))
    /\ chatProcs' = [chatProcs EXCEPT ![p] = [pc |-> "done", w |-> 0]]
    /\ UNCHANGED <<chatFile, chatWrites, hasInitialSummary>>
    /\ UNCHANGED <<rankVars, storeVars, simVars, readVars, libVars>>
    /\ UNCHANGED <<genVars, searchVars, appVars>>

\* an exchange of an earlier visit to the screen's paper, as the store held it
EarlierExchange ==
    <<WelcomeMessage,
      Message("user-0", "user", "old question", "undefined"),
      Message("ai-0", "assistant", "old response", "false")>>

\* the chat screen is about to mount: the sessions as loadChatSessions left
\* them, the model downloaded or not
InitChat ==
    /\ SimAtRest
    /\ ReadAtRest
    /\ LibAtRest
    /\ StoreAtRest
    /\ GenAtRest
    /\ SearchAtRest
    /\ AppAtRest
    /\ isDownloaded \in BOOLEAN
    /\ papers = <<>>
    /\ interests = <<>>
    /\ embeddingsFile = <<>>
    /\ pc = "idle"
    /\ storedEmbeddings = <<>>
    /\ interestEmbeddings = <<>>
    /\ tasks = <<>>
    /\ result = <<>>
    /\ path = "none"
    /\ run = 0
    /\ paperCalls = [id \in PaperIds |-> 0]
    /\ interestCalls = 0
    /\ fileAtStart = <<>>
    /\ prev = NoPrev
    /\ chatFile \in {NoSessions, OldSessions,
                     WithMessage(OldSessions, ScreenPaper, WelcomeMessage),
                     [p \in {ScreenPaper} |-> EarlierExchange]}
    /\ chatSessions = chatFile
    /\ chatWrites = [w \in 1..MaxChatWrites |-> NoChatWrite]
    /\ chatProcs = [p \in ProcNames |-> NoProc]
    /\ hasInitialSummary = FALSE

NextChat ==
    \/ WelcomeEffect
    \/ generateInitialSummary
    \/ handleSend
    \/ \E w \in 1..MaxChatWrites, ok \in BOOLEAN : SaveChatSessionsDone(w, ok)
    \/ \E p \in {"summary", "send"}, ok \in BOOLEAN : CompletionDone(p, ok)

SpecChat == InitChat /\ [][NextChat]_vars

(***************************************************************************)
(* The development hook (hooks/useCactusAI.ts): generateCompletion streams *)
(* the words of a fixed response, one per timer, and stopGeneration sets   *)
(* abortRef.  The response is MaxWords words long; texts are the numbers   *)
(* of their words.                                                         *)
(***************************************************************************)
\* generateCompletion(messages, options, onToken) up to the first
\* `await new Promise(...)` of the loop: without a model it throws before
\* any state is set
generateCompletion(c) ==
    /\ calls[c].pc = "idle"
    /\ \A j \in 1..(c - 1) : calls[j].pc # "idle"
    /\ IF ~isModelDownloaded
       THEN /\ calls' = [calls EXCEPT ![c] = [@ EXCEPT !.pc = "threw"]]
            /\ UNCHANGED <<isGenerating, currentResponse, genError, abortRef>>
       ELSE /\ isGenerating' = TRUE
            /\ currentResponse' = 0
            /\ genError' = "null"
            /\ abortRef' = FALSE
            /\ calls' = [calls EXCEPT ![c] = [@ EXCEPT !.pc = "waiting"]]
    /\ UNCHANGED isModelDownloaded
    /\ UNCHANGED <<rankVars, storeVars, simVars, readVars, libVars>>
    /\ UNCHANGED <<chatVars, searchVars, appVars>>

\* the timer of call c fired: the word is appended, setCurrentResponse and
\* onToken are called; onToken may throw (catch, then finally); otherwise the
\* loop goes on to its next word unless abortRef is set or no word is left,
\* and the call returns through finally
TimerFired(c, ok) ==
    /\ calls[c].pc = "waiting"
    /\ LET accumulated == calls[c].accumulated + 1
           ends == abortRef \/ accumulated = MaxWords
       IN  /\ currentResponse' = accumulated
           /\ calls' = [calls EXCEPT ![c] =
                           [@ EXCEPT !.accumulated = accumulated,
                                     !.pc = IF ~ok THEN "threw"
                                            ELSE IF ends THEN "returned"
                                            ELSE "waiting"]]
           /\ isGenerating' = IF ~ok \/ ends THEN FALSE ELSE isGenerating
           /\ genError' = IF ok THEN genError ELSE "onToken failed"
    /\ UNCHANGED <<isModelDownloaded, abortRef>>
    /\ UNCHANGED <<rankVars, storeVars, simVars, readVars, libVars>>
    /\ UNCHANGED <<chatVars, searchVars, appVars>>

\* stopGeneration(): abortRef.current = true.  Each running call records that
\* it was stopped and the words it had.
stopGeneration ==
    /\ abortRef' = TRUE
    /\ calls' = [c \in 1..MaxCalls |->
                    IF calls[c].pc = "waiting" /\ ~calls[c].stopped
                    THEN [calls[c] EXCEPT !.stopped = TRUE,
                                          !.stopAt = calls[c].accumulated]
                    ELSE calls[c]]
    /\ UNCHANGED <<isModelDownloaded, isGenerating, currentResponse, genError>>
    /\ UNCHANGED <<rankVars, storeVars, simVars, readVars, libVars>>
    /\ UNCHANGED <<chatVars, searchVars, appVars>>

\* the hook after its first render, the model downloaded or not
InitGen ==
    /\ RankAtRest
    /\ StoreAtRest
    /\ SimAtRest
    /\ ReadAtRest
    /\ LibAtRest
    /\ ChatAtRest
    /\ SearchAtRest
    /\ AppAtRest
    /\ isModelDownloaded \in BOOLEAN
    /\ isGenerating = FALSE
    /\ currentResponse = 0
    /\ genError = "null"
    /\ abortRef = FALSE
    /\ calls = [c \in 1..MaxCalls |-> NoCall]

NextGen ==
    \/ \E c \in 1..MaxCalls : generateCompletion(c)
    \/ \E c \in 1..MaxCalls, ok \in BOOLEAN : TimerFired(c, ok)
    \/ stopGeneration

SpecGen == InitGen /\ [][NextGen]_vars

(***************************************************************************)
(* Search (useAppStore.ts:227-253): searchPapers, clearSearch and          *)
(* setSearchQuery, the searchPapers calls made so far indexed in call      *)
(* order.  The catalogue answers a query with the same list every time.    *)
(***************************************************************************)
\* the queries the screens pass: a blank one, and two with different results
Queries == {" ", "q1", "q2"}

\* query.trim()
Trim(query) == IF query = " " THEN "" ELSE query

\* const { papers } = await arxivApi.searchPapers(query, ...)
ResultsOf(query) ==
    CASE query = "q1" -> <<"p1", "p2">>
      [] query = "q2" -> <<"p3">>
      [] OTHER -> <<>>

\* searchPapers(query) up to `await arxivApi.searchPapers`; a blank query
\* clears the results and returns
searchPapers(k, query) ==
    /\ searches[k].pc = "idle"
    /\ \A j \in 1..(k - 1) : searches[j].pc # "idle"
    /\ IF Trim(query) = ""
       THEN /\ searchResults' = <<>>
            /\ isSearching' = FALSE
            /\ searches' = [searches EXCEPT ![k] = [pc |-> "blank", query |-> query]]
            /\ lastSearchOp' = [kind |-> "blank", k |-> k]
            /\ UNCHANGED searchQuery
       ELSE /\ isSearching' = TRUE
            /\ searchQuery' = query
            /\ searches' = [searches EXCEPT ![k] = [pc |-> "pending", query |-> query]]
            /\ lastSearchOp' = [kind |-> "search", k |-> k]
            /\ UNCHANGED searchResults
    /\ UNCHANGED <<rankVars, storeVars, simVars, readVars, libVars>>
    /\ UNCHANGED <<chatVars, genVars, appVars>>

\* the catalogue answered call k: set({ searchResults: papers, isSearching: false })
SearchResolved(k) ==
    /\ searches[k].pc = "pending"
    /\ searchResults' = ResultsOf(searches[k].query)
    /\ isSearching' = FALSE
    /\ searches' = [searches EXCEPT ![k] = [@ EXCEPT !.pc = "resolved"]]
    /\ UNCHANGED <<searchQuery, lastSearchOp>>
    /\ UNCHANGED <<rankVars, storeVars, simVars, readVars, libVars>>
    /\ UNCHANGED <<chatVars, genVars, appVars>>

\* the request of call k failed: the catch block sets isSearching false
SearchRejected(k) ==
    /\ searches[k].pc = "pending"
    /\ isSearching' = FALSE
    /\ searches' = [searches EXCEPT ![k] = [@ EXCEPT !.pc = "rejected"]]
    /\ UNCHANGED <<searchQuery, searchResults, lastSearchOp>>
    /\ UNCHANGED <<rankVars, storeVars, simVars, readVars, libVars>>
    /\ UNCHANGED <<chatVars, genVars, appVars>>

\* clearSearch: set({ searchQuery: '', searchResults: [] })
clearSearch ==
    /\ searchQuery' = ""
    /\ searchResults' = <<>>
    /\ lastSearchOp' = [kind |-> "clear", k |-> 0]
    /\ UNCHANGED <<isSearching, searches>>
    /\ UNCHANGED <<rankVars, storeVars, simVars, readVars, libVars>>
    /\ UNCHANGED <<chatVars, genVars, appVars>>

\* setSearchQuery(query): set({ searchQuery: query })
setSearchQuery(query) ==
    /\ searchQuery' = query
    /\ lastSearchOp' = [kind |-> "set", k |-> 0]
    /\ UNCHANGED <<searchResults, isSearching, searches>>
    /\ UNCHANGED <<rankVars, storeVars, simVars, readVars, libVars>>
    /\ UNCHANGED <<chatVars, genVars, appVars>>

\* search as create() builds it
InitSearch ==
    /\ RankAtRest
    /\ StoreAtRest
    /\ SimAtRest
    /\ ReadAtRest
    /\ LibAtRest
    /\ ChatAtRest
    /\ GenAtRest
    /\ AppAtRest
    /\ searchQuery = ""
    /\ searchResults = <<>>
    /\ isSearching = FALSE
    /\ searches = [k \in 1..MaxSearches |-> NoSearch]
    /\ lastSearchOp = NoSearchOp

NextSearch ==
    \/ \E k \in 1..MaxSearches, query \in Queries : searchPapers(k, query)
    \/ \E k \in 1..MaxSearches : SearchResolved(k)
    \/ \E k \in 1..MaxSearches : SearchRejected(k)
    \/ clearSearch
    \/ \E query \in Queries : setSearchQuery(query)

SpecSearch == InitSearch /\ [][NextSearch]_vars

(***************************************************************************)
(* Start-up: initializeApp (useAppStore.ts:83-96) and the dashboard's      *)
(* mount effect, focus effect and handleRefresh (DashboardScreen.tsx:      *)
(* 51-69).  Each load awaits its storage reader, which never rejects       *)
(* (readJsonFile gives the default when the file cannot be read), and sets *)
(* what it got; the notes themselves are not part of the state here.       *)
(***************************************************************************)
\* the mount effect: if (!isInitialized) initializeApp(), up to
\* `await Promise.all([...])`, the four loads at their awaits
initializeApp ==
    /\ ~isInitialized
    /\ \A l \in LoadNames : loads[l] = "idle"
    /\ loads' = [l \in LoadNames |-> "pending"]
    /\ UNCHANGED <<isInitialized, interestsFile, clearPc, preClear>>
    /\ UNCHANGED <<rankVars, storeVars, simVars, readVars, libVars>>
    /\ UNCHANGED <<chatVars, genVars, searchVars>>

\* the reader of load l resolved, with the file's content or (ok false) with
\* its default: the load sets it and returns
LoadSettled(l, ok) ==
    /\ loads[l] = "pending"
    /\ loads' = [loads EXCEPT ![l] = "settled"]
    /\ storeInterests' = IF l # "interests" THEN storeInterests
                         ELSE IF ok THEN interestsFile ELSE <<>>
    /\ libraryPapers' = IF l # "library" THEN libraryPapers
                        ELSE IF ok THEN libraryFile ELSE <<>>
    /\ chatSessions' = IF l # "chatSessions" THEN chatSessions
                       ELSE IF ok THEN chatFile ELSE NoSessions
    /\ UNCHANGED <<isInitialized, interestsFile, clearPc, preClear>>
    /\ UNCHANGED <<recommendedPapers, isLoadingPapers, papersError, agentActivities,
                   papersFile, fetches, lastStarted>>
    /\ UNCHANGED <<libraryFile, libWrites, libLoads, libAdded>>
    /\ UNCHANGED <<chatFile, chatWrites, chatProcs, hasInitialSummary>>
    /\ UNCHANGED <<rankVars, simVars, readVars, genVars, searchVars>>

\* Promise.all settled: set({ isInitialized: true }), in the try block or in
\* the catch block
InitializeDone ==
    /\ ~isInitialized
    /\ \A l \in LoadNames : loads[l] = "settled"
    /\ isInitialized' = TRUE
    /\ UNCHANGED <<loads, interestsFile, clearPc, preClear>>
    /\ UNCHANGED <<rankVars, storeVars, simVars, readVars, libVars>>
    /\ UNCHANGED <<chatVars, genVars, searchVars>>

\* the focus effect: if (isInitialized) fetchRecommendedPapers()
DashboardFocus ==
    /\ isInitialized
    /\ \E k \in 1..MaxFetches : fetchRecommendedPapers(k)

\* handleRefresh, the onRefresh of the dashboard's RefreshControl, which is
\* rendered whatever isInitialized is; the mount effect has run before the
\* user can pull
handleRefresh ==
    /\ isInitialized \/ \E l \in LoadNames : loads[l] # "idle"
    /\ \E k \in 1..MaxFetches : fetchRecommendedPapers(k)

\* the app starts: the store as create() builds it, the files as an earlier
\* session left them
InitApp ==
    /\ RankAtRest
    /\ SimAtRest
    /\ ReadAtRest
    /\ GenAtRest
    /\ SearchAtRest
    /\ storeInterests = <<>>
    /\ recommendedPapers = NoPapers
    /\ isLoadingPapers = FALSE
    /\ papersError = NoError
    /\ agentActivities = 0
    /\ papersFile \in {NoFile, [exists |-> TRUE, papers |-> OldFeed]}
    /\ fetches = [k \in 1..MaxFetches |-> NoFetch]
    /\ lastStarted = NoPass
    /\ libraryPapers = <<>>
    /\ libraryFile = <<"p3">>
    /\ libWrites = [w \in 1..MaxLibWrites |-> NoWrite]
    /\ libLoads = [started |-> 0, reading |-> 0]
    /\ libAdded = {}
    /\ chatSessions = NoSessions
    /\ chatFile = OldSessions
    /\ chatWrites = [w \in 1..MaxChatWrites |-> NoChatWrite]
    /\ chatProcs = [p \in ProcNames |-> NoProc]
    /\ hasInitialSummary = FALSE
    /\ isInitialized = FALSE
    /\ loads = [l \in LoadNames |-> "idle"]
    /\ interestsFile \in SeqsUpTo(InterestNames, 1)
    /\ clearPc = "idle"
    /\ preClear = <<>>

NextInit ==
    \/ initializeApp
    \/ \E l \in LoadNames, ok \in BOOLEAN : LoadSettled(l, ok)
    \/ InitializeDone
    \/ DashboardFocus
    \/ handleRefresh
    \/ \E k \in 1..MaxFetches, feed \in Feeds : GetPapersResolved(k, feed)
    \/ \E k \in 1..MaxFetches : GetPapersRejected(k)
    \/ \E k \in 1..MaxFetches, ok \in BOOLEAN : SavePapersCacheDone(k, ok)
    \/ \E k \in 1..MaxFetches : GetPapersCacheDone(k)

\* The mount effect runs, the file system completes every read, and the
\* event loop runs the continuation of a settled Promise.all.
SpecInit ==
    /\ InitApp
    /\ [][NextInit]_vars
    /\ WF_vars(initializeApp)
    /\ \A l \in LoadNames : WF_vars(\E ok \in BOOLEAN : LoadSettled(l, ok))
    /\ WF_vars(InitializeDone)

(***************************************************************************)
(* Reset: the Clear Data button of the settings screen (handleClearData)   *)
(* and clearAllData (storage.ts), which deletes the data directory with    *)
(* every file in it and catches its own errors, next to the library        *)
(* actions of the store.  Papers saved by an earlier session are told from *)
(* papers added now by their ids.                                          *)
(***************************************************************************)
\* library.json as an earlier session left it, and the papers added now
SavedBefore == <<"p3">>
NewPaperIds == {"p1", "p2"}

\* DATA_DIR exists once a file has been written into it
DirExists ==
    \/ libraryFile # <<>>
    \/ interestsFile # <<>>
    \/ chatFile # NoSessions
    \/ papersFile.exists
    \/ embeddingsFile # <<>>

\* 'Clear Data' pressed: clearAllData() up to `await FileSystem.getInfoAsync`
handleClearData ==
    /\ clearPc = "idle"
    /\ clearPc' = "info"
    /\ preClear' = libraryFile
    /\ UNCHANGED <<isInitialized, loads, interestsFile>>
    /\ UNCHANGED <<rankVars, storeVars, simVars, readVars, libVars>>
    /\ UNCHANGED <<chatVars, genVars, searchVars>>

\* getInfoAsync(DATA_DIR) settled: deleteAsync is awaited if the directory
\* exists; a rejection is caught and the handler reports 'Done' all the same
ClearGetInfoDone(ok) ==
    /\ clearPc = "info"
    /\ clearPc' = IF ~ok THEN "failed" ELSE IF DirExists THEN "delete" ELSE "done"
    /\ UNCHANGED <<isInitialized, loads, interestsFile, preClear>>
    /\ UNCHANGED <<rankVars, storeVars, simVars, readVars, libVars>>
    /\ UNCHANGED <<chatVars, genVars, searchVars>>

\* deleteAsync(DATA_DIR, { idempotent: true }) settled: every file is gone,
\* or the rejection is caught
ClearDeleteDone(ok) ==
    /\ clearPc = "delete"
    /\ clearPc' = IF ok THEN "done" ELSE "failed"
    /\ libraryFile' = IF ok THEN <<>> ELSE libraryFile
    /\ interestsFile' = IF ok THEN <<>> ELSE interestsFile
    /\ chatFile' = IF ok THEN NoSessions ELSE chatFile
    /\ papersFile' = IF ok THEN NoFile ELSE papersFile
    /\ embeddingsFile' = IF ok THEN <<>> ELSE embeddingsFile
    /\ UNCHANGED <<isInitialized, loads, preClear>>
    /\ UNCHANGED <<isDownloaded, papers, interests, pc, storedEmbeddings,
                   interestEmbeddings, tasks, result, path, run, paperCalls,
                   interestCalls, fileAtStart, prev>>
    /\ UNCHANGED <<storeInterests, recommendedPapers, isLoadingPapers, papersError,
                   agentActivities, fetches, lastStarted>>
    /\ UNCHANGED <<libraryPapers, libWrites, libLoads, libAdded>>
    /\ UNCHANGED <<chatSessions, chatWrites, chatProcs, hasInitialSummary>>
    /\ UNCHANGED <<simVars, readVars, genVars, searchVars>>

\* the app is initialized: the store holds what the files of the earlier
\* session hold
InitClear ==
    /\ RankAtRest
    /\ SimAtRest
    /\ ReadAtRest
    /\ GenAtRest
    /\ SearchAtRest
    /\ interestsFile \in SeqsUpTo(InterestNames, 1)
    /\ storeInterests = interestsFile
    /\ recommendedPapers = NoPapers
    /\ isLoadingPapers = FALSE
    /\ papersError = NoError
    /\ agentActivities = 0
    /\ papersFile \in {NoFile, [exists |-> TRUE, papers |-> OldFeed]}
    /\ fetches = [k \in 1..MaxFetches |-> NoFetch]
    /\ lastStarted = NoPass
    /\ libraryFile = SavedBefore
    /\ libraryPapers = libraryFile
    /\ libWrites = [w \in 1..MaxLibWrites |-> NoWrite]
    /\ libLoads = [started |-> 0, reading |-> 0]
    /\ libAdded = {}
    /\ chatFile \in {NoSessions, OldSessions}
    /\ chatSessions = chatFile
    /\ chatWrites = [w \in 1..MaxChatWrites |-> NoChatWrite]
    /\ chatProcs = [p \in ProcNames |-> NoProc]
    /\ hasInitialSummary = FALSE
    /\ isInitialized = TRUE
    /\ loads = [l \in LoadNames |-> "settled"]
    /\ clearPc = "idle"
    /\ preClear = <<>>

NextClear ==
    \/ handleClearData
    \/ \E ok \in BOOLEAN : ClearGetInfoDone(ok)
    \/ \E ok \in BOOLEAN : ClearDeleteDone(ok)
    \/ \E id \in NewPaperIds : addToLibrary(id)
    \/ \E w \in 1..MaxLibWrites, ok \in BOOLEAN : SaveLibraryDone(w, ok)
    \/ loadLibrary
    \/ GetLibraryDone

SpecClear == InitClear /\ [][NextClear]_vars

(***************************************************************************)
(* Vocabulary of the properties.                                           *)
(***************************************************************************)
PassDone == pc = "done"

\* the pass returned from `return scoredPapers.sort(...)`
PassScored == pc = "done" /\ path = "scored"

\* the position in the returned list of the paper given at position i
PositionOf(i) == CHOOSE j \in DOMAIN result : result[j].id = papers[i].id

\* the entry returned for the paper given at position i
Returned(i) == result[PositionOf(i)]

\* the paper at position i had no stored embedding when the pass read the file
Missed(i) == papers[i].id \notin DOMAIN storedEmbeddings

\* the embedding of the paper at position i was resolved (stored, or embedded
\* and saved without an error)
Resolved(i) == tasks[i].failed = "none"

\* similarity of the paper at position i to the k-th resolved interest vector
Similarity(i, k) == cosineSimilarity(tasks[i].emb, interestEmbeddings[k].embedding)

\* the k-th interest gives the paper at position i its greatest similarity
AttainsMax(i, k) ==
    \A m \in DOMAIN interestEmbeddings : ~RatGreater(Similarity(i, m), Similarity(i, k))

(***************************************************************************)
(* Properties of the ranking pass.                                         *)
(***************************************************************************)
\* what a pass in which no resolution fails returns for the paper at position i
UnfailedEntry(i) ==
    ScoredPaper(papers[i],
                IF Missed(i) THEN PaperVec(papers[i].id)
                ELSE storedEmbeddings[papers[i].id].embedding,
                interestEmbeddings)

\* C1: in a pass over several papers in which the resolution of a paper's
\* embedding fails, that paper is returned with score 0 and no matched
\* interest, and every other paper is returned with the score and matched
\* interest of a pass in which nothing fails.
C1_FailedPaperScoresZeroOthersUnaffected ==
    (PassScored /\ Len(papers) > 1 /\ \E i \in DOMAIN papers : ~Resolved(i)) =>
        \A i \in DOMAIN papers :
            /\ \E j \in DOMAIN result : result[j].id = papers[i].id
            /\ IF Resolved(i)
               THEN /\ Returned(i).score = UnfailedEntry(i).score
                    /\ Returned(i).matchedInterest = UnfailedEntry(i).matchedInterest
               ELSE /\ Returned(i).score = Zero
                    /\ Returned(i).matchedInterest = NoInterest

\* the storePaperEmbedding call for the paper at position i completed
StoreCompleted(i) ==
    /\ Missed(i)
    /\ tasks[i].st = "fulfilled"
    /\ tasks[i].failed = "none"

\* C2: once all the storePaperEmbedding calls that were in flight together have
\* completed, the embedding store holds a record for each of their paper ids.
C2_NoEmbeddingWriteLost ==
    PassScored =>
        \A i \in DOMAIN papers : StoreCompleted(i) => papers[i].id \in DOMAIN embeddingsFile

\* C4: with an empty interest list or a model that is not downloaded, every
\* input paper is returned once, in input order, with score 0 and no matched
\* interest, and the embedding engine is not called.
C4_FallbackReturnsPapersUnmatched ==
    (PassDone /\ (~isDownloaded \/ Len(interests) = 0)) =>
        /\ Len(result) = Len(papers)
        /\ \A i \in DOMAIN papers :
              result[i] = [id |-> papers[i].id, score |-> Zero,
                           matchedInterest |-> NoInterest]
        /\ interestCalls = 0
        /\ \A id \in PaperIds : paperCalls[id] = 0

C7_SortedStablePermutation ==
    PassDone =>
        /\ Len(result) = Len(papers)
        /\ \A i \in DOMAIN papers : \E j \in DOMAIN result : result[j].id = papers[i].id
        /\ \A j, k \in DOMAIN result :
              j < k => ~RatGreater(result[k].score, result[j].score)
        /\ \A i, k \in DOMAIN papers :
              (i < k /\ Returned(i).score = Returned(k).score) =>
                  PositionOf(i) < PositionOf(k)

\* two papers of equal positive score are returned in input order, behind no
\* paper of a lower score
C7_Witness ==
    /\ PassScored
    /\ \E i, k \in DOMAIN papers :
          /\ i < k
          /\ Returned(i).score = Returned(k).score
          /\ RatGreater(Returned(i).score, Zero)
          /\ PositionOf(i) < PositionOf(k)

\* a later paper of a higher score is returned before an earlier one
C7_WitnessReordered ==
    /\ PassScored
    /\ \E i, k \in DOMAIN papers :
          /\ i < k
          /\ RatGreater(Returned(k).score, Returned(i).score)
          /\ PositionOf(k) < PositionOf(i)

\* every paper of the list had a stored embedding in file f
Warm(f) == \A i \in DOMAIN papers : papers[i].id \in DOMAIN f

C9_CacheHitSkipsEngineMissStores ==
    PassScored =>
        \A i \in DOMAIN papers :
            IF papers[i].id \in DOMAIN fileAtStart
            THEN /\ paperCalls[papers[i].id] = 0
                 /\ tasks[i].emb = fileAtStart[papers[i].id].embedding
            ELSE /\ paperCalls[papers[i].id] = 1
                 /\ Resolved(i) =>
                       /\ papers[i].id \in DOMAIN embeddingsFile
                       /\ embeddingsFile[papers[i].id].embedding = PaperVec(papers[i].id)

\* interest names that differ when compared without regard to case
DistinctInterests == {ToLowerCase(interests[k]) : k \in DOMAIN interests}

\* C10: in a pass, the engine calls made for interests number the interest
\* names that are distinct when compared case-insensitively.
C10_InterestsEmbeddedOncePerName ==
    PassScored => interestCalls = Cardinality(DistinctInterests)

(***************************************************************************)
(* Properties of the recommendation passes of the store.                   *)
(***************************************************************************)
NoFetchOutstanding == \A k \in 1..MaxFetches : fetches[k].pc \in {"idle", "done"}

\* C3: when a recommendation pass is started while an earlier one is still
\* outstanding and the earlier one completes last, its result is discarded:
\* once no pass is outstanding, recommendedPapers holds the result of the pass
\* that was started most recently.
C3_LatestPassWins ==
    (/\ NoFetchOutstanding
     /\ lastStarted.kind = "fetch"
     /\ fetches[lastStarted.k].outcome \in {"fetched", "cached"}) =>
        recommendedPapers = fetches[lastStarted.k].delivered

\* the pass ended in the outer catch because embedQuery rejected for the
\* interest that follows the resolved ones
InterestFailed ==
    pc = "done" /\ path = "caught" /\ Len(interestEmbeddings) < Len(interests)

\* C11: when embedding one interest fails in a pass while other interests
\* resolved, the papers are still scored against the resolved interests: a
\* paper with a stored embedding is returned with the score and the matched
\* interest its best resolved interest gives it.
C11_InterestFailureAbsorbed ==
    (InterestFailed /\ Len(interestEmbeddings) > 0) =>
        \A i \in DOMAIN papers :
            ~Missed(i) =>
                LET entry == ScoredPaper(papers[i],
                                         storedEmbeddings[papers[i].id].embedding,
                                         interestEmbeddings)
                IN  /\ Returned(i).score = entry.score
                    /\ Returned(i).matchedInterest = entry.matchedInterest

\* 0 <= x <= 1 on rationals
InUnitInterval(x) == x.d > 0 /\ x.n >= 0 /\ x.n <= x.d

\* no resolved interest gives the paper at position i a positive similarity
NoPositiveSimilarity(i) ==
    \A k \in DOMAIN interestEmbeddings : ~RatGreater(Similarity(i, k), Zero)

CacheFrame ==
    /\ \A id \in DOMAIN fileAtStart :
          id \in DOMAIN embeddingsFile /\ embeddingsFile[id] = fileAtStart[id]
    /\ \A id \in DOMAIN embeddingsFile \ DOMAIN fileAtStart :
          \E i \in DOMAIN papers : papers[i].id = id

FrameStep ==
    /\ papers' = papers
    /\ interests' = interests
    /\ UNCHANGED storeVars
    /\ UNCHANGED chatVars
    /\ UNCHANGED genVars
    /\ UNCHANGED searchVars
    /\ UNCHANGED appVars
    /\ run' > 0 => CacheFrame'

C12_MismatchedLengthsThrow ==
    Len(simA) # Len(simB) =>
        /\ simCosine \in {NotCalled, Thrown}
        /\ simCompute \in {NotCalled, Thrown}

\* the vector has zero magnitude
ZeroMagnitude(v) == LoopSum(v, v, Len(v)) = 0

\* C14: for a zero-magnitude vector and any other vector of the same length,
\* in either argument order, cosineSimilarity and computeSimilarity both
\* return 0; neither throws or yields a non-number.
C14_ZeroVectorGivesZero ==
    (Len(simA) = Len(simB) /\ (ZeroMagnitude(simA) \/ ZeroMagnitude(simB))) =>
        /\ simCosine \in {NotCalled, Zero}
        /\ simCompute \in {NotCalled, Zero}

(***************************************************************************)
(* Properties of the ranking pass over vectors of different dimensions.    *)
(***************************************************************************)
\* the stored embedding of the paper at position i has another length than
\* a resolved interest vector
Mismatching(i) ==
    /\ ~Missed(i)
    /\ \E k \in DOMAIN interestEmbeddings :
          Len(storedEmbeddings[papers[i].id].embedding) #
              Len(interestEmbeddings[k].embedding)

\* the pass returned after every interest was embedded
InterestsResolved ==
    pc = "done" /\ path # "fallback" /\ Len(interestEmbeddings) = Len(interests)

\* C13: when the stored embedding of one paper of a pass has another length
\* than an interest vector, every other paper whose embedding is resolved is
\* returned with the score and the matched interest of a pass without the
\* mismatching paper.
C13_MismatchFailsOneComparisonOnly ==
    (InterestsResolved /\ \E i \in DOMAIN papers : Mismatching(i)) =>
        \A j \in DOMAIN papers :
            (~Mismatching(j) /\ Resolved(j)) =>
                /\ Returned(j).score = UnfailedEntry(j).score
                /\ Returned(j).matchedInterest = UnfailedEntry(j).matchedInterest

(***************************************************************************)
(* Progress of the ranking pass.                                           *)
(***************************************************************************)
\* the pass is past its early return and has not returned yet
PassRunning == pc \in {"getEmbeddings", "interests", "papers"}

\* C15: a pass always eventually returns, also when an engine call it made
\* never completes.
C15_PassEventuallyReturns == PassRunning ~> PassDone

(***************************************************************************)
(* Properties of the fallback of fetchRecommendedPapers.                   *)
(***************************************************************************)
\* call k returns in this step
Completes(k) == fetches[k].pc # "done" /\ fetches'[k].pc = "done"

\* the catalogue request of call k was rejected
FetchRejected(k) == fetches[k].error = FetchFailed

\* a failed catalogue request falls back to the papers cache when there is
\* one, and otherwise leaves the list alone and reports the failure
FallbackStep(k) ==
    (Completes(k) /\ FetchRejected(k)) =>
        IF papersFile.exists
        THEN recommendedPapers' = papersFile.papers /\ papersError' = CachedNotice
        ELSE recommendedPapers' = recommendedPapers /\ papersError' = FetchFailed

\* a call whose catalogue request resolved does not end with the network notice
NoFalseNotice(k) ==
    (Completes(k) /\ ~FetchRejected(k)) => papersError' # CachedNotice

\* C18: when the catalogue request of a fetchRecommendedPapers call fails,
\* the list becomes the cached papers and papersError the notice if a papers
\* cache exists, and otherwise the list is unchanged and papersError carries
\* the failure message; a call whose request succeeded is never reported as a
\* network error.
C18_FetchFailureFallsBackToCache ==
    [][\A k \in 1..MaxFetches : FallbackStep(k) /\ NoFalseNotice(k)]_vars

(***************************************************************************)
(* Properties of the storage readers.                                      *)
(***************************************************************************)
\* the reader's file holds a value of the shape the reader expects
HoldsExpected(reader, content) ==
    content \in Texts /\ JSONParse(content) \in ExpectedShape(reader)

\* C19: a storage reader whose file is missing, unreadable or holds content
\* that is not a valid value of the expected shape returns its default value
\* ([], {} or null) and does not throw.
C19_ReadersReturnDefaultOnBadFile ==
    (rdPc = "done" /\ ~HoldsExpected(rdReader, rdContent)) =>
        rdResult = DefaultValue(rdReader)

(***************************************************************************)
(* Properties of the library.                                              *)
(***************************************************************************)
\* C20: a paper added by addToLibrary is in libraryPapers in every later
\* state until removeFromLibrary is called with its id, however loadLibrary
\* interleaves with the pending write of the add.
C20_AddedPaperStaysInLibrary ==
    \A id \in libAdded : InList(libraryPapers, id)

\* every saveLibraryPapers call made so far has resolved, and one was made
WritesLanded ==
    /\ \A w \in 1..MaxLibWrites : libWrites[w].st \in {"idle", "done"}
    /\ \E w \in 1..MaxLibWrites : libWrites[w].st = "done"

\* C21: after a sequence of addToLibrary and removeFromLibrary calls, once
\* all their storage writes have finished, in whatever order, library.json
\* holds the in-memory libraryPapers.
C21_LibraryFileMatchesStore ==
    (WritesLanded /\ libLoads.started = 0) => libraryFile = libraryPapers

\* no two entries of libraryPapers have the same id
NoDuplicates == IsInjective(libraryPapers)

\* a saveLibraryPapers call is made in this step
WriteStarted ==
    \E w \in 1..MaxLibWrites : libWrites[w].st = "idle" /\ libWrites'[w].st = "pending"

\* the entries of new are entries of old, in the order they have in old
KeepsOrder(new, old) ==
    /\ \A i \in DOMAIN new : \E j \in DOMAIN old : old[j] = new[i]
    /\ \A i, j \in DOMAIN new :
          i < j => \E m, n \in DOMAIN old : m < n /\ old[m] = new[i] /\ old[n] = new[j]

\* a step of addToLibrary or removeFromLibrary that writes either puts a paper
\* that was not in the list in front of the unchanged list, or takes the
\* entries of one id out and keeps the others in their order
LibraryStep ==
    WriteStarted =>
        IF Len(libraryPapers') > Len(libraryPapers)
        THEN /\ Tail(libraryPapers') = libraryPapers
             /\ \A i \in DOMAIN libraryPapers : libraryPapers[i] # Head(libraryPapers')
        ELSE /\ KeepsOrder(libraryPapers', libraryPapers)
             /\ \E id \in PaperIds :
                   \A i \in DOMAIN libraryPapers :
                       libraryPapers[i] # id =>
                           \E j \in DOMAIN libraryPapers' :
                               libraryPapers'[j] = libraryPapers[i]

\* C26: libraryPapers never holds two papers with the same id; an
\* addToLibrary that writes has put a paper that was not in the list first,
\* an addToLibrary of an id already in the list changes and writes nothing,
\* and removeFromLibrary leaves the other papers in their relative order.
C26_LibraryHasNoDuplicates == [](NoDuplicates) /\ [][LibraryStep]_vars

\* a paper was put in front of two others and one of the three was removed
C26_Witness ==
    /\ libWrites[1].st # "idle"
    /\ libWrites[2].st # "idle"
    /\ Len(libWrites[1].list) = 3
    /\ Len(libWrites[2].list) = 2
    /\ libraryPapers = libWrites[2].list

FetchInFlight == \E k \in 1..MaxFetches : fetches[k].pc \notin {"idle", "done"}

\* C28: isLoadingPapers is true exactly while at least one
\* fetchRecommendedPapers call is in flight: every finishing path (fetched,
\* cache fallback, no cache) leaves it false once no call remains, and a
\* finishing call does not make it false while another call is still running.
C28_LoadingWhileFetchInFlight == isLoadingPapers <=> FetchInFlight

ExchangeFinished == chatProcs["send"].pc = "done"

ChatWritesCompleted ==
    \A w \in 1..MaxChatWrites : chatWrites[w].st \in {"idle", "done"}

\* C22: after a chat exchange has finished (user message added, placeholder
\* added, final response delivered by updateLastMessage) and all pending
\* writes have completed, the persisted session of the paper equals the
\* session in memory, final assistant response and isStreaming false included.
C22_PersistedSessionMatchesStore ==
    (ExchangeFinished /\ ChatWritesCompleted) =>
        MessagesOf(chatFile, ScreenPaper) = MessagesOf(chatSessions, ScreenPaper)

\* the placeholder each completion created
PlaceholderOf(p) == IF p = "summary" THEN ThinkingMessage ELSE AiMessage

\* the texts a message may hold: the text it was added with, and for a
\* placeholder the texts its own completion delivers
OwnTexts(id) ==
    CASE id = "summary-1" -> {"", FinalText("summary", TRUE), FinalText("summary", FALSE)}
      [] id = "ai-1" -> {"", FinalText("send", TRUE), FinalText("send", FALSE)}
      [] id = "user-1" -> {"question"}
      [] id = "user-0" -> {"old question"}
      [] id = "ai-0" -> {"old response"}
      [] OTHER -> {"hello"}

\* the completion of p has delivered its text to its own placeholder
DeliveredToOwn(p) ==
    \E i \in DOMAIN MessagesOf(chatSessions, ScreenPaper) :
        LET m == MessagesOf(chatSessions, ScreenPaper)[i]
        IN  /\ m.id = PlaceholderOf(p).id
            /\ m.content \in OwnTexts(m.id) \ {""}
            /\ m.isStreaming = "false"

\* C29: the updateLastMessage call that delivers a completion's final text
\* or error text overwrites the placeholder created for that completion and
\* no other message, under every interleaving of handleSend with the
\* initial summary, and leaves the sessions of other papers as they were.
C29_FinalTextReplacesOwnPlaceholder ==
    /\ \A p \in {"summary", "send"} : chatProcs[p].pc = "done" => DeliveredToOwn(p)
    /\ \A i \in DOMAIN MessagesOf(chatSessions, ScreenPaper) :
           MessagesOf(chatSessions, ScreenPaper)[i].content
               \in OwnTexts(MessagesOf(chatSessions, ScreenPaper)[i].id)
    /\ OtherPaper \in DOMAIN chatSessions =>
           chatSessions[OtherPaper] = OldSessions[OtherPaper]

\* C25: once stopGeneration has been called during a running
\* generateCompletion, no further word is appended to the response or
\* delivered to onToken, and the call returns the text accumulated up to the
\* stop.
C25_StopEndsGeneration ==
    \A c \in 1..MaxCalls :
        calls[c].stopped => calls[c].accumulated = calls[c].stopAt

CallRunning == \E c \in 1..MaxCalls : calls[c].pc = "waiting"

\* C30: isGenerating is true exactly while a generateCompletion call is
\* running: false again after the call returns, throws or is stopped, not
\* set by a call that throws for want of a model, and not false while a
\* second, overlapping call is still producing tokens.
C30_GeneratingWhileCallRuns == isGenerating <=> CallRunning

NoSearchInFlight == \A k \in 1..MaxSearches : searches[k].pc # "pending"

\* the operation called last was a search that got its answer, or clearSearch
LastSearchAnswered ==
    \/ lastSearchOp.kind = "clear"
    \/ /\ lastSearchOp.kind = "search"
       /\ searches[lastSearchOp.k].pc = "resolved"

\* C27: once no searchPapers call is in flight, searchResults are the
\* results of the query held in searchQuery: an earlier, slower search does
\* not overwrite the results of a later one, and a search that completes
\* after clearSearch does not repopulate the cleared results.
C27_ResultsBelongToQuery ==
    (NoSearchInFlight /\ LastSearchAnswered) =>
        searchResults = ResultsOf(searchQuery)

FetchStarts ==
    \E k \in 1..MaxFetches : fetches[k].pc = "idle" /\ fetches'[k].pc # "idle"

\* C24: initializeApp always eventually sets isInitialized to true, whether
\* the four loads succeed or any of them fails; isInitialized never returns
\* to false; and the dashboard never calls fetchRecommendedPapers while
\* isInitialized is false.
C24_InitializedThenFetch ==
    /\ <>isInitialized
    /\ [][isInitialized => isInitialized']_vars
    /\ [][FetchStarts => isInitialized]_vars

\* a paper the earlier session saved, in library.json when Clear Data was pressed
ExistedBefore(id) == InList(SavedBefore, id) /\ InList(preClear, id)

\* C23: after Clear All Data has completed, what was saved before the clear
\* is gone from storage and does not reappear there: a later addToLibrary
\* persists only papers added after the clear.
C23_ClearedDataStaysCleared ==
    clearPc = "done" =>
        /\ \A id \in PaperIds : ExistedBefore(id) => ~InList(libraryFile, id)
        /\ interestsFile = <<>>
        /\ chatFile = NoSessions

====
